---- MODULE Spec2Model ----
(***************************************************************************)
(* The three programs of wielop/x1factory:                                 *)
(*   programs/mining_v2          (accumulator, rig positions, MIND staking)*)
(*       Spec, SpecAdmin, SpecGlobal, SpecRenew, SpecCeiling, SpecPool,    *)
(*       SpecMind, SpecGrace, SpecLife, SpecProfile                        *)
(*   programs/pocm_vault_mining  (linear vesting claim, staking)           *)
(*       SpecPocm, SpecVest, SpecStake                                     *)
(*   programs/melt_v1            (burn rounds paid from a vault)           *)
(*       SpecMelt, SpecRounds, SpecMachine, SpecWindow, SpecLive,          *)
(*       SpecMigrate                                                       *)
(*                                                                         *)
(* u128 quantities scaled by ACC_SCALE = 10^18 do not fit TLC's integers,  *)
(* so they are kept exactly as little-endian sequences of base-1000 limbs  *)
(* without trailing zero limbs ("Big").  10^18 = 1000^6, so a multiplication*)
(* or division by ACC_SCALE is a shift by six limbs.                       *)
(***************************************************************************)
EXTENDS Integers, Sequences, FiniteSets, TLC

-----------------------------------------------------------------------------
(* Exact wide arithmetic                                                   *)

LimbBase == 10 * 10 * 10

RECURSIVE BigFromInt(_)
BigFromInt(n) ==
    IF n = 0 THEN <<>> ELSE <<n % LimbBase>> \o BigFromInt(n \div LimbBase)

RECURSIVE BigToInt(_)
BigToInt(b) ==
    IF b = <<>> THEN 0 ELSE Head(b) + LimbBase * BigToInt(Tail(b))

RECURSIVE BigNorm(_)
BigNorm(b) ==
    IF b = <<>> THEN <<>>
    ELSE IF b[Len(b)] = 0 THEN BigNorm(SubSeq(b, 1, Len(b) - 1))
    ELSE b

RECURSIVE BigAddC(_, _, _)
BigAddC(a, b, c) ==
    IF a = <<>> /\ b = <<>> THEN BigFromInt(c)
    ELSE LET x == IF a = <<>> THEN 0 ELSE Head(a)
             y == IF b = <<>> THEN 0 ELSE Head(b)
             t == x + y + c
         IN  <<t % LimbBase>>
               \o BigAddC(IF a = <<>> THEN <<>> ELSE Tail(a),
                          IF b = <<>> THEN <<>> ELSE Tail(b),
                          t \div LimbBase)

BigAdd(a, b) == BigNorm(BigAddC(a, b, 0))

RECURSIVE BigMulC(_, _, _)
BigMulC(a, m, c) ==
    IF a = <<>> THEN BigFromInt(c)
    ELSE LET t == Head(a) * m + c
         IN  <<t % LimbBase>> \o BigMulC(Tail(a), m, t \div LimbBase)

\* a * m for a machine-sized m
BigMulSmall(a, m) == BigNorm(BigMulC(a, m, 0))

\* floor(a / d) for a machine-sized d > 0 (long division from the top limb)
BigDivSmall(a, d) ==
    LET n == Len(a)
        rem[i \in 1..(n + 1)] ==
            IF i = n + 1 THEN 0 ELSE (rem[i + 1] * LimbBase + a[i]) % d
    IN  BigNorm([i \in 1..n |-> (rem[i + 1] * LimbBase + a[i]) \div d])

\* a * 1000^k
BigShiftUp(a, k) ==
    IF a = <<>> THEN <<>> ELSE [i \in 1..k |-> 0] \o a

\* floor(a / 1000^k)
BigShiftDown(a, k) ==
    IF Len(a) <= k THEN <<>> ELSE SubSeq(a, k + 1, Len(a))

RECURSIVE BigLessFrom(_, _, _)
BigLessFrom(a, b, i) ==
    IF i = 0 THEN FALSE
    ELSE IF a[i] # b[i] THEN a[i] < b[i]
    ELSE BigLessFrom(a, b, i - 1)

BigLess(a, b) ==
    IF Len(a) # Len(b) THEN Len(a) < Len(b) ELSE BigLessFrom(a, b, Len(a))

BigLeq(a, b) == a = b \/ BigLess(a, b)

-----------------------------------------------------------------------------
(* mining_v2: constants                                                    *)

BPS_DENOMINATOR == 10000
\* ACC_SCALE = 10^18 = LimbBase^AccScaleLimbs
AccScaleLimbs == 6
HP_SCALE == 100
SECONDS_PER_DAY_DEFAULT == 86400
LEVEL_BONUS_CAP_BPS == 1000
XP_SECONDS_PER_POINT_DENOMINATOR == 36000
RIG_BUFF_CAP_BPS == 850

-----------------------------------------------------------------------------
(* Bounds of the model                                                     *)

\* the last day on which transactions land
MaxDays == 10
\* position accounts per owner (position_index 0..MaxIndex-1)
MaxIndex == 2
\* contract types offered to buy_contract: 0..MaxContractType
MaxContractType == 1
\* length of a caller-supplied remaining_accounts list
MaxListLen == 2
\* InitConfigParams.emission_per_sec
EmissionPerSec == 1
\* InitConfigParams.max_effective_hp
MaxEffectiveHp == 30
\* InitConfigParams.max_effective_hp of a pool in which two type 1 rigs
\* are more than one owner may hold
LowCeiling == 10
\* hp (unscaled) of the legacy MinerPositionV1 record present at start
LegacyHp == 7
\* instructions executed in one behaviour
MaxOps == 4
\* MIND staked or unstaked by one stake_mind / unstake_mind
StakeUnit == 100
\* lamports sent to staking_reward_vault by one plain transfer
VaultGift == 1500000

\* InitConfigParams.seconds_per_day: the pool runs on half-length days, so a
\* type 0 rig lasts 3.5 and a type 1 rig 7 days of wall-clock time
SecondsPerDay == SECONDS_PER_DAY_DEFAULT \div 2
\* seconds in a day of wall-clock time
WallDay == 2 * SecondsPerDay
\* the wall-clock days on which transactions land: creation, a day inside
\* the term of a rig bought on day 0, the end of a type 1 rig bought on day 0
\* (which opens its grace window), and a day past that grace window
ClockDays == {0, 3, 7, MaxDays}

Owners == {"alice", "bob"}
PosIds == Owners \X (0..(MaxIndex - 1))
ContractTypes == 0..MaxContractType
\* amounts passed to stake_mind and unstake_mind
MindAmounts == {StakeUnit, 3 * StakeUnit}
\* epoch_seconds passed to roll_epoch: a week of wall-clock time
EpochSeconds == 7 * WallDay


-----------------------------------------------------------------------------
(* mining_v2: pure helpers                                                 *)

level_bonus_bps(level) ==
    CASE level \in {0, 1} -> 0
      [] level = 2 -> 160
      [] level = 3 -> 340
      [] level = 4 -> 550
      [] level = 5 -> 780
      [] OTHER -> LEVEL_BONUS_CAP_BPS

level_threshold(level) ==
    CASE level = 1 -> 0
      [] level = 2 -> 1
      [] level = 3 -> 2000
      [] level = 4 -> 5000
      [] level = 5 -> 10000
      [] OTHER -> 16000

\* in whole MIND (the source multiplies by MIND_DECIMALS = 10^9)
level_up_cost(level) ==
    CASE level = 1 -> 150
      [] level = 2 -> 350
      [] level = 3 -> 900
      [] level = 4 -> 2000
      [] level = 5 -> 4000
      [] OTHER -> 0

apply_bps(amount, bps) ==
    (amount * (BPS_DENOMINATOR + bps)) \div BPS_DENOMINATOR

\* (duration_days, base_hp_scaled, cost in units of XNT_BASE)
contract_terms(contract_type) ==
    CASE contract_type = 0 -> [ok |-> TRUE, days |-> 7, hp |-> 60, cost |-> 1]
      [] contract_type = 1 -> [ok |-> TRUE, days |-> 14, hp |-> 700, cost |-> 8]
      [] contract_type = 2 -> [ok |-> TRUE, days |-> 28, hp |-> 1500, cost |-> 16]
      [] OTHER -> [ok |-> FALSE, days |-> 0, hp |-> 0, cost |-> 0]

XNT_BASE == 1000000000
STAKING_SHARE_BPS == 3000

\* cost_base * STAKING_SHARE_BPS / BPS_DENOMINATOR, in lamports (Big)
staking_share_of(cost) ==
    BigDivSmall(BigMulSmall(BigMulSmall(BigFromInt(XNT_BASE), cost),
                            STAKING_SHARE_BPS), BPS_DENOMINATOR)

position_base_hp_scaled(position) ==
    IF position.hp_scaled THEN position.hp ELSE position.hp * HP_SCALE

rig_type_from_duration(start_ts, end_ts, seconds_per_day) ==
    IF end_ts <= start_ts \/ seconds_per_day <= 0 THEN -1
    ELSE LET days == (end_ts - start_ts) \div seconds_per_day
         IN  CASE days = 7 -> 0
               [] days = 14 -> 1
               [] days = 28 -> 2
               [] OTHER -> -1

\* -1 stands for Err(InvalidRigDuration)
position_rig_type(position, cfg) ==
    IF position.version >= 2 THEN position.rig_type
    ELSE rig_type_from_duration(position.start_ts, position.end_ts,
                                cfg.seconds_per_day)

rig_max_buff_level(rig_type) ==
    CASE rig_type = 0 -> 1
      [] rig_type \in {1, 2} -> 3
      [] OTHER -> 0

rig_buff_bps(rig_type, buff_level) ==
    CASE rig_type = 0 -> (IF buff_level = 0 THEN 0 ELSE 100)
      [] rig_type = 1 -> (CASE buff_level = 0 -> 0
                            [] buff_level = 1 -> 100
                            [] buff_level = 2 -> 200
                            [] OTHER -> 350)
      [] rig_type = 2 -> (CASE buff_level = 0 -> 0
                            [] buff_level = 1 -> 150
                            [] buff_level = 2 -> 300
                            [] OTHER -> 500)
      [] OTHER -> 0

position_buff_bps(position, rig_type, now_ts) ==
    IF position.buff_level = 0 THEN 0
    ELSE IF position.buff_applied_from_cycle = 0
         THEN rig_buff_bps(rig_type, position.buff_level)
    ELSE IF now_ts >= position.buff_applied_from_cycle
         THEN rig_buff_bps(rig_type, position.buff_level)
    ELSE 0

effective_hp_scaled(base_hp_scaled, level, buff_bps) ==
    apply_bps(apply_bps(base_hp_scaled, buff_bps), level_bonus_bps(level))

\* hp * acc / ACC_SCALE
earned_per_hp(hp, acc_mind_per_hp) ==
    BigToInt(BigShiftDown(BigMulSmall(acc_mind_per_hp, hp), AccScaleLimbs))

Max(a, b) == IF a >= b THEN a ELSE b
Min(a, b) == IF a <= b THEN a ELSE b

\* pending_mind that does not subtract reward_debt
pending_mind_gross(hp_effective, acc_mind_per_hp, reward_debt) ==
    earned_per_hp(hp_effective, acc_mind_per_hp)

pending_mind(hp_effective, acc_mind_per_hp, reward_debt) ==
    Max(earned_per_hp(hp_effective, acc_mind_per_hp) - reward_debt, 0)

earned_per_stake(staked, acc_xnt_per_mind) ==
    BigToInt(BigShiftDown(BigMulSmall(acc_xnt_per_mind, staked), AccScaleLimbs))

pending_stake(cfg, stake) ==
    Max(earned_per_stake(stake.staked_mind, cfg.staking_acc_xnt_per_mind)
          - stake.reward_debt, 0)

\* accrue_staking_owed that leaves the pending amount out of reward_owed
accrue_staking_owed_dropped(cfg, stake) == stake

accrue_staking_owed(cfg, stake) ==
    IF pending_stake(cfg, stake) = 0 THEN stake
    ELSE [stake EXCEPT !.reward_owed = @ + pending_stake(cfg, stake)]

\* update_mining_global that leaves last_update_ts behind while no hp is active
update_mining_global_idle_kept(cfg, now_ts) ==
    IF now_ts <= cfg.last_update_ts THEN cfg
    ELSE IF cfg.network_hp_active = 0 THEN cfg
    ELSE LET dt == now_ts - cfg.last_update_ts
             mintable == dt * cfg.emission_per_sec
             delta == BigDivSmall(BigShiftUp(BigFromInt(mintable), AccScaleLimbs),
                                  cfg.network_hp_active)
         IN  [cfg EXCEPT !.acc_mind_per_hp = BigAdd(@, delta),
                         !.last_update_ts = now_ts]

update_mining_global(cfg, now_ts) ==
    IF now_ts <= cfg.last_update_ts THEN cfg
    ELSE IF cfg.network_hp_active = 0
         THEN [cfg EXCEPT !.last_update_ts = now_ts]
    ELSE LET dt == now_ts - cfg.last_update_ts
             mintable == dt * cfg.emission_per_sec
             delta == BigDivSmall(BigShiftUp(BigFromInt(mintable), AccScaleLimbs),
                                  cfg.network_hp_active)
         IN  [cfg EXCEPT !.acc_mind_per_hp = BigAdd(@, delta),
                         !.last_update_ts = now_ts]

\* update_staking_global without its last assignment
update_staking_global_keeps_ts(cfg, now_ts) ==
    IF now_ts <= cfg.staking_last_update_ts THEN cfg
    ELSE IF cfg.staking_reward_rate_xnt_per_sec = 0
            \/ cfg.staking_total_staked_mind = 0
         THEN [cfg EXCEPT !.staking_last_update_ts = now_ts]
    ELSE LET effective_end == Min(now_ts, cfg.staking_epoch_end_ts)
             dt == effective_end - cfg.staking_last_update_ts
             mintable == dt * cfg.staking_reward_rate_xnt_per_sec
             delta == BigDivSmall(BigShiftUp(BigFromInt(mintable), AccScaleLimbs),
                                  cfg.staking_total_staked_mind)
         IN  IF effective_end <= cfg.staking_last_update_ts THEN cfg
             ELSE [cfg EXCEPT !.staking_acc_xnt_per_mind = BigAdd(@, delta)]

update_staking_global(cfg, now_ts) ==
    IF now_ts <= cfg.staking_last_update_ts THEN cfg
    ELSE IF cfg.staking_reward_rate_xnt_per_sec = 0
            \/ cfg.staking_total_staked_mind = 0
         THEN [cfg EXCEPT !.staking_last_update_ts = now_ts]
    ELSE LET effective_end == Min(now_ts, cfg.staking_epoch_end_ts)
             dt == effective_end - cfg.staking_last_update_ts
             mintable == dt * cfg.staking_reward_rate_xnt_per_sec
             delta == BigDivSmall(BigShiftUp(BigFromInt(mintable), AccScaleLimbs),
                                  cfg.staking_total_staked_mind)
         IN  IF effective_end <= cfg.staking_last_update_ts THEN cfg
             ELSE [cfg EXCEPT !.staking_acc_xnt_per_mind = BigAdd(@, delta),
                              !.staking_last_update_ts = effective_end]

\* a grace window of no length
grace_deadline_ts_none(end_ts, seconds_per_day) == end_ts

grace_deadline_ts(end_ts, seconds_per_day) == end_ts + seconds_per_day * 2

\* stands for the error MathOverflow of a failed checked_sub
Underflow == -1

checked_sub(a, b) == IF a >= b THEN a - b ELSE Underflow

-----------------------------------------------------------------------------
(* State                                                                   *)

VARIABLES
    now,          \* Clock::get().unix_timestamp
    cfg,          \* mining_v2 Config account
    profiles,     \* mining_v2 user profile accounts, by owner
    positions,    \* mining_v2 position accounts, by (owner, position_index)
    mind_minted,  \* MIND minted by claim_mind (supply of the mint)
    emitted,      \* history: sum of dt * emission_per_sec credited to the accumulator
    accAtEnd,     \* history: per position, accumulator value at its end_ts
    frozenHp,     \* history: per position, effective hp removed at its expiry
    expiries,     \* history: per position, expiries applied in the current cycle
    last,         \* history: what the instruction of the latest step did
    ops,          \* history: number of instructions executed
    hp_scale_config  \* HpScaleConfig.enabled

VARIABLES
    user_stake,            \* mining_v2 UserStake accounts, by owner
    staking_reward_vault   \* lamports of staking_reward_vault above its rent

VARIABLES
    pocm_now,        \* Clock::get().unix_timestamp seen by pocm_vault_mining
    pocm_cfg,        \* pocm_vault_mining Config account
    pocm_profiles,   \* UserProfile accounts, by owner
    pocm_positions,  \* UserPosition accounts, by (owner, position_index)
    pocm_stakes,     \* StakingPosition accounts, by (owner, stake_index)
    pocm_vault_xnt,  \* balance of staking_vault_xnt_ata
    pocm_minted,     \* MIND minted by claim (supply of the mint)
    pocm_last,       \* history: what the instruction of the latest step did
    pocm_ops         \* history: number of instructions executed

pocmVars == <<pocm_now, pocm_cfg, pocm_profiles, pocm_positions, pocm_stakes,
              pocm_vault_xnt, pocm_minted, pocm_last, pocm_ops>>

stakingVars == <<user_stake, staking_reward_vault>>

miningVars_but_last == <<now, cfg, profiles, positions, mind_minted, emitted,
                         accAtEnd, frozenHp, expiries, ops, hp_scale_config>>

miningVars == <<now, cfg, profiles, positions, mind_minted, emitted, accAtEnd,
                frozenHp, expiries, last, ops, hp_scale_config>>

\* sentinel for "no value recorded" in Big-valued history fields
Unset == <<-1>>

\* key is the owner in the seeds of the address of the account; owner ""
\* is Pubkey::default()
NoProfile ==
    [size |-> "none", key |-> "", owner |-> "", next_position_index |-> 0,
     active_hp |-> 0, xp |-> 0, badge_tier |-> 0, badge_bonus_bps |-> 0,
     level |-> 0, last_xp_update_ts |-> 0, hp_scaled |-> FALSE]

\* the address [PROFILE_SEED, owner] before the account is created
ProfileAt(owner) == [NoProfile EXCEPT !.key = owner]

\* a UserStake account that was never created
NoUserStake == [owner |-> "", staked_mind |-> 0, reward_debt |-> 0, reward_owed |-> 0]

NoPosition ==
    [size |-> "none", hp |-> 0, hp_marker |-> FALSE, start_ts |-> 0, end_ts |-> 0,
     reward_debt |-> 0, final_acc_mind_per_hp |-> <<>>, deactivated |-> FALSE,
     rig_type |-> 0, buff_level |-> 0, hp_scaled |-> FALSE, expired |-> FALSE,
     buff_applied_from_cycle |-> 0]

-----------------------------------------------------------------------------
(* mining_v2: account records of the two (three) schema generations        *)

\* PositionData as decoded from an account of either size
load_position_any(acct) ==
    IF acct.size = "V2"
    THEN [hp |-> acct.hp, hp_marker |-> acct.hp_marker, start_ts |-> acct.start_ts,
          end_ts |-> acct.end_ts, reward_debt |-> acct.reward_debt,
          final_acc_mind_per_hp |-> acct.final_acc_mind_per_hp,
          deactivated |-> acct.deactivated, rig_type |-> acct.rig_type,
          buff_level |-> acct.buff_level, hp_scaled |-> acct.hp_scaled,
          expired |-> acct.expired,
          buff_applied_from_cycle |-> acct.buff_applied_from_cycle, version |-> 2]
    ELSE [hp |-> acct.hp, hp_marker |-> acct.hp_marker, start_ts |-> acct.start_ts,
          end_ts |-> acct.end_ts, reward_debt |-> acct.reward_debt,
          final_acc_mind_per_hp |-> acct.final_acc_mind_per_hp,
          deactivated |-> acct.deactivated, rig_type |-> 0, buff_level |-> 0,
          hp_scaled |-> FALSE, expired |-> FALSE, buff_applied_from_cycle |-> 0,
          version |-> 1]

\* the account of size `size` after PositionData `p` is written into it
save_position(size, p) ==
    IF size = "V2"
    THEN [size |-> "V2", hp |-> p.hp, hp_marker |-> p.hp_marker,
          start_ts |-> p.start_ts, end_ts |-> p.end_ts,
          reward_debt |-> p.reward_debt,
          final_acc_mind_per_hp |-> p.final_acc_mind_per_hp,
          deactivated |-> p.deactivated, rig_type |-> p.rig_type,
          buff_level |-> p.buff_level, hp_scaled |-> p.hp_scaled,
          expired |-> p.expired,
          buff_applied_from_cycle |-> p.buff_applied_from_cycle]
    ELSE [size |-> "V1", hp |-> p.hp, hp_marker |-> p.hp_marker,
          start_ts |-> p.start_ts, end_ts |-> p.end_ts,
          reward_debt |-> p.reward_debt,
          final_acc_mind_per_hp |-> p.final_acc_mind_per_hp,
          deactivated |-> p.deactivated, rig_type |-> 0, buff_level |-> 0,
          hp_scaled |-> FALSE, expired |-> FALSE, buff_applied_from_cycle |-> 0]

\* realloc to the current size
ensure_position_v2(size) == "V2"

load_user_profile_any(acct) ==
    CASE acct.size = "V2" -> acct
      [] acct.size = "V2Legacy" -> [acct EXCEPT !.hp_scaled = FALSE]
      [] OTHER -> [acct EXCEPT !.level = 0, !.last_xp_update_ts = 0,
                               !.hp_scaled = FALSE]

init_profile_defaults(profile, owner, now_ts) ==
    IF profile.owner = ""
    THEN [profile EXCEPT !.owner = owner, !.next_position_index = 0,
                         !.active_hp = 0, !.xp = 0, !.badge_tier = 0,
                         !.badge_bonus_bps = 0, !.level = 1,
                         !.last_xp_update_ts = now_ts, !.hp_scaled = TRUE]
    ELSE IF profile.level = 0
    THEN [profile EXCEPT !.xp = 0, !.level = 1, !.last_xp_update_ts = now_ts]
    ELSE profile

\* ensure_profile_hp_scaled that does not look at hp_scaled
ensure_profile_hp_scaled_again(profile) ==
    [profile EXCEPT !.active_hp = @ * HP_SCALE, !.hp_scaled = TRUE]

ensure_profile_hp_scaled(profile) ==
    IF profile.hp_scaled THEN profile
    ELSE [profile EXCEPT !.active_hp = @ * HP_SCALE, !.hp_scaled = TRUE]

\* creates the profile, or grows a legacy record to the current size and
\* normalises it; the result is what the account holds afterwards
ensure_user_profile_v2(acct, now_ts) ==
    IF acct.size = "none"
    THEN [size |-> "V2", key |-> acct.key, owner |-> acct.key,
          next_position_index |-> 0, active_hp |-> 0, xp |-> 0,
          badge_tier |-> 0, badge_bonus_bps |-> 0,
          level |-> 1, last_xp_update_ts |-> now_ts, hp_scaled |-> TRUE]
    ELSE [ensure_profile_hp_scaled(
              init_profile_defaults(load_user_profile_any(acct), acct.key,
                                    now_ts))
          EXCEPT !.size = "V2"]

update_user_xp(profile, now_ts) ==
    IF profile.level = 0
    THEN [profile EXCEPT !.xp = 0, !.level = 1, !.last_xp_update_ts = now_ts]
    ELSE LET delta == now_ts - profile.last_xp_update_ts
             base_hp_scaled == IF profile.hp_scaled THEN profile.active_hp
                               ELSE profile.active_hp * HP_SCALE
             \* the u128 product over denom = XP_SECONDS_PER_POINT_DENOMINATOR
             \* * HP_SCALE, divided by its two factors in turn
             gained == BigToInt(BigDivSmall(
                           BigDivSmall(BigMulSmall(BigFromInt(delta), base_hp_scaled),
                                       XP_SECONDS_PER_POINT_DENOMINATOR),
                           HP_SCALE))
         IN  IF delta <= 0 THEN profile
             ELSE [profile EXCEPT !.xp = @ + gained, !.last_xp_update_ts = now_ts]

-----------------------------------------------------------------------------
(* mining_v2: position lifecycle helpers.  A handler works on a record     *)
(*   [err, cfg, pos, prof, upd, exp_hp]                                    *)
(* err is "Ok" or the ErrorCode that aborts the instruction; upd lists the *)
(* update_mining_global calls made, as <<Config before the call, ts>>;     *)
(* exp_hp is the effective hp taken out of network_hp_active by an expiry  *)
(* in this instruction (-1: none).                                         *)

Upd(st, ts) ==
    [st EXCEPT !.cfg = update_mining_global(st.cfg, ts),
               !.upd = Append(st.upd, <<st.cfg, ts>>)]

Fail(st, e) == IF st.err = "Ok" THEN [st EXCEPT !.err = e] ELSE st

expire_position(st, now_ts) ==
    LET expire_at(s1) ==
            LET rig_type == position_rig_type(s1.pos, s1.cfg)
                base_hp_scaled == position_base_hp_scaled(s1.pos)
                buff_bps == position_buff_bps(s1.pos, rig_type, now_ts)
                hp_effective == effective_hp_scaled(base_hp_scaled, s1.prof.level,
                                                    buff_bps)
                nhp == checked_sub(s1.cfg.network_hp_active, hp_effective)
                ahp == checked_sub(s1.prof.active_hp, base_hp_scaled)
            IN  IF rig_type < 0 THEN Fail(s1, "InvalidRigDuration")
                ELSE IF nhp = Underflow \/ ahp = Underflow
                     THEN Fail(s1, "MathOverflow")
                ELSE Upd([s1 EXCEPT
                             !.pos.final_acc_mind_per_hp = s1.cfg.acc_mind_per_hp,
                             !.pos.expired = TRUE,
                             !.cfg.network_hp_active = nhp,
                             !.prof.active_hp = ahp,
                             !.exp_hp = hp_effective], now_ts)
    IN  IF st.err # "Ok" THEN st
        ELSE IF st.pos.deactivated \/ st.pos.expired \/ now_ts < st.pos.end_ts
             THEN st
        ELSE expire_at(IF st.cfg.last_update_ts < st.pos.end_ts
                       THEN Upd(st, st.pos.end_ts) ELSE st)

finalize_position(st, now_ts) ==
    LET finalize_at(s1) ==
            LET rig_type == position_rig_type(s1.pos, s1.cfg)
                base_hp_scaled == position_base_hp_scaled(s1.pos)
                buff_bps == position_buff_bps(s1.pos, rig_type, now_ts)
                hp_effective == effective_hp_scaled(base_hp_scaled, s1.prof.level,
                                                    buff_bps)
                nhp == checked_sub(s1.cfg.network_hp_active, hp_effective)
                ahp == checked_sub(s1.prof.active_hp, base_hp_scaled)
                s2 == IF ~s1.pos.expired
                      THEN [s1 EXCEPT
                               !.pos.final_acc_mind_per_hp = s1.cfg.acc_mind_per_hp,
                               !.cfg.network_hp_active = nhp,
                               !.prof.active_hp = ahp,
                               !.pos.expired = TRUE,
                               !.exp_hp = hp_effective]
                      ELSE s1
            IN  IF rig_type < 0 THEN Fail(s1, "InvalidRigDuration")
                ELSE IF ~s1.pos.expired /\ (nhp = Underflow \/ ahp = Underflow)
                     THEN Fail(s1, "MathOverflow")
                ELSE Upd([s2 EXCEPT !.pos.deactivated = TRUE,
                                    !.pos.hp = hp_effective,
                                    !.pos.hp_marker = TRUE], now_ts)
    IN  IF st.err # "Ok" THEN st
        ELSE finalize_at(IF ~st.pos.expired /\ st.cfg.last_update_ts < st.pos.end_ts
                         THEN Upd(st, st.pos.end_ts) ELSE st)

\* <<hp_effective, acc_used>>; hp_effective = -1 stands for an error
effective_hp_for_claim(position, profile_level, c, now_ts) ==
    IF position.deactivated
    THEN IF position.hp_marker
         THEN <<position.hp, position.final_acc_mind_per_hp>>
         ELSE <<position.hp * HP_SCALE,
                BigDivSmall(position.final_acc_mind_per_hp, HP_SCALE)>>
    ELSE LET rig_type == position_rig_type(position, c)
             base_hp_scaled == position_base_hp_scaled(position)
             buff_bps == position_buff_bps(position, rig_type, now_ts)
         IN  IF rig_type < 0 THEN <<-1, <<>>>>
             ELSE <<effective_hp_scaled(base_hp_scaled, profile_level, buff_bps),
                    IF position.expired THEN position.final_acc_mind_per_hp
                    ELSE c.acc_mind_per_hp>>

-----------------------------------------------------------------------------
(* mining_v2: instruction handlers, as functions of the accounts passed    *)

Start(c, pos, prof) ==
    [err |-> "Ok", cfg |-> c, pos |-> pos, prof |-> prof, upd |-> <<>>,
     exp_hp |-> -1]

\* the staking share of the contract price is booked on the Config
book_staking_share(c, cost) ==
    LET share == staking_share_of(cost)
    IN  IF share = <<>> THEN c
        ELSE [c EXCEPT !.staking_undistributed_xnt = BigAdd(@, share),
                       !.staking_accounted_balance = BigAdd(@, share)]

buy_contract(c, profAcct, contract_type, position_index, now_ts) ==
    LET buy_with(s0, profile, terms) ==
            LET duration_seconds == terms.days * s0.cfg.seconds_per_day
                new_active_hp == profile.active_hp + terms.hp
                hp_effective == effective_hp_scaled(terms.hp, profile.level, 0)
                position ==
                    [hp |-> terms.hp, hp_marker |-> FALSE, start_ts |-> now_ts,
                     end_ts |-> now_ts + duration_seconds,
                     reward_debt |->
                         earned_per_hp(hp_effective, s0.cfg.acc_mind_per_hp),
                     final_acc_mind_per_hp |-> <<>>, deactivated |-> FALSE,
                     rig_type |-> contract_type, buff_level |-> 0,
                     hp_scaled |-> TRUE, expired |-> FALSE,
                     buff_applied_from_cycle |-> 0, version |-> 2]
            IN  IF position_index # profile.next_position_index
                THEN Fail(s0, "InvalidPositionIndex")
                ELSE IF ~terms.ok THEN Fail(s0, "InvalidContractType")
                ELSE IF new_active_hp > s0.cfg.max_effective_hp * HP_SCALE
                     THEN Fail(s0, "MaxEffectiveHpExceeded")
                ELSE [s0 EXCEPT
                         !.pos = save_position("V2", position),
                         !.prof = [profile EXCEPT !.active_hp = new_active_hp,
                                                  !.next_position_index = @ + 1],
                         !.cfg = book_staking_share(
                                     [s0.cfg EXCEPT
                                         !.network_hp_active = @ + hp_effective],
                                     terms.cost)]
    IN  buy_with(Upd(Start(c, NoPosition, profAcct), now_ts),
                 update_user_xp(ensure_user_profile_v2(profAcct, now_ts), now_ts),
                 contract_terms(contract_type))

\* renew_tail without the check of the ceiling of the owner
renew_tail_unchecked(s1, rig_type, new_buff_level, now_ts) ==
    LET terms == contract_terms(rig_type)
        duration_seconds == terms.days * s1.cfg.seconds_per_day
        new_active_hp == s1.prof.active_hp + terms.hp
        applied == IF new_buff_level > s1.pos.buff_level THEN now_ts
                   ELSE s1.pos.buff_applied_from_cycle
        p1 == [s1.pos EXCEPT !.start_ts = now_ts,
                             !.end_ts = now_ts + duration_seconds,
                             !.hp = terms.hp, !.hp_marker = FALSE,
                             !.hp_scaled = TRUE, !.rig_type = rig_type,
                             !.buff_level = new_buff_level,
                             !.buff_applied_from_cycle = applied,
                             !.expired = FALSE, !.deactivated = FALSE,
                             !.final_acc_mind_per_hp = <<>>]
        buff_bps == position_buff_bps(p1, rig_type, now_ts)
        hp_effective == effective_hp_scaled(terms.hp, s1.prof.level, buff_bps)
        p2 == [p1 EXCEPT !.reward_debt =
                             earned_per_hp(hp_effective, s1.cfg.acc_mind_per_hp)]
    IN  IF s1.err # "Ok" THEN s1
        ELSE [s1 EXCEPT
                 !.pos = p2,
                 !.prof.active_hp = new_active_hp,
                 !.cfg = book_staking_share(
                             [s1.cfg EXCEPT !.network_hp_active = @ + hp_effective],
                             terms.cost)]

\* renew_tail without the new reward_debt
renew_tail_keeps_debt(s1, rig_type, new_buff_level, now_ts) ==
    LET terms == contract_terms(rig_type)
        duration_seconds == terms.days * s1.cfg.seconds_per_day
        new_active_hp == s1.prof.active_hp + terms.hp
        applied == IF new_buff_level > s1.pos.buff_level THEN now_ts
                   ELSE s1.pos.buff_applied_from_cycle
        p1 == [s1.pos EXCEPT !.start_ts = now_ts,
                             !.end_ts = now_ts + duration_seconds,
                             !.hp = terms.hp, !.hp_marker = FALSE,
                             !.hp_scaled = TRUE, !.rig_type = rig_type,
                             !.buff_level = new_buff_level,
                             !.buff_applied_from_cycle = applied,
                             !.expired = FALSE, !.deactivated = FALSE,
                             !.final_acc_mind_per_hp = <<>>]
        buff_bps == position_buff_bps(p1, rig_type, now_ts)
        hp_effective == effective_hp_scaled(terms.hp, s1.prof.level, buff_bps)
        p2 == p1
    IN  IF s1.err # "Ok" THEN s1
        ELSE IF new_active_hp > s1.cfg.max_effective_hp * HP_SCALE
             THEN Fail(s1, "MaxEffectiveHpExceeded")
        ELSE [s1 EXCEPT
                 !.pos = p2,
                 !.prof.active_hp = new_active_hp,
                 !.cfg = book_staking_share(
                             [s1.cfg EXCEPT !.network_hp_active = @ + hp_effective],
                             terms.cost)]

\* the part renew_rig and renew_rig_with_buff share after their checks:
\* the position starts a new cycle with buff level new_buff_level
renew_tail(s1, rig_type, new_buff_level, now_ts) ==
    LET terms == contract_terms(rig_type)
        duration_seconds == terms.days * s1.cfg.seconds_per_day
        new_active_hp == s1.prof.active_hp + terms.hp
        applied == IF new_buff_level > s1.pos.buff_level THEN now_ts
                   ELSE s1.pos.buff_applied_from_cycle
        p1 == [s1.pos EXCEPT !.start_ts = now_ts,
                             !.end_ts = now_ts + duration_seconds,
                             !.hp = terms.hp, !.hp_marker = FALSE,
                             !.hp_scaled = TRUE, !.rig_type = rig_type,
                             !.buff_level = new_buff_level,
                             !.buff_applied_from_cycle = applied,
                             !.expired = FALSE, !.deactivated = FALSE,
                             !.final_acc_mind_per_hp = <<>>]
        buff_bps == position_buff_bps(p1, rig_type, now_ts)
        hp_effective == effective_hp_scaled(terms.hp, s1.prof.level, buff_bps)
        p2 == [p1 EXCEPT !.reward_debt =
                             earned_per_hp(hp_effective, s1.cfg.acc_mind_per_hp)]
    IN  IF s1.err # "Ok" THEN s1
        ELSE IF new_active_hp > s1.cfg.max_effective_hp * HP_SCALE
             THEN Fail(s1, "MaxEffectiveHpExceeded")
        ELSE [s1 EXCEPT
                 !.pos = p2,
                 !.prof.active_hp = new_active_hp,
                 !.cfg = book_staking_share(
                             [s1.cfg EXCEPT !.network_hp_active = @ + hp_effective],
                             terms.cost)]

\* renew_head without the check of the grace deadline
renew_head_no_grace(c, posAcct, profAcct, is_owner, now_ts) ==
    LET position == load_position_any(posAcct)
        profile == update_user_xp(ensure_user_profile_v2(profAcct, now_ts), now_ts)
        s0 == Start(c, position, profile)
        rig_type == position_rig_type(position, c)
    IN  IF posAcct.size = "none" THEN Fail(s0, "InvalidPositionOwner")
        ELSE IF ~is_owner THEN Fail(s0, "Unauthorized")
        ELSE IF now_ts < position.end_ts THEN Fail(s0, "PositionNotExpired")
        ELSE IF rig_type < 0 THEN Fail(s0, "InvalidRigDuration")
        ELSE IF ~position.expired THEN expire_position(s0, now_ts)
        ELSE Upd(s0, now_ts)

\* the checks both renewals start with, up to the expiry of the old cycle
renew_head(c, posAcct, profAcct, is_owner, now_ts) ==
    LET position == load_position_any(posAcct)
        profile == update_user_xp(ensure_user_profile_v2(profAcct, now_ts), now_ts)
        s0 == Start(c, position, profile)
        rig_type == position_rig_type(position, c)
    IN  IF posAcct.size = "none" THEN Fail(s0, "InvalidPositionOwner")
        ELSE IF ~is_owner THEN Fail(s0, "Unauthorized")
        ELSE IF now_ts < position.end_ts THEN Fail(s0, "PositionNotExpired")
        ELSE IF now_ts > grace_deadline_ts(position.end_ts, c.seconds_per_day)
             THEN Fail(s0, "PositionGraceExpired")
        ELSE IF rig_type < 0 THEN Fail(s0, "InvalidRigDuration")
        ELSE IF ~position.expired THEN expire_position(s0, now_ts)
        ELSE Upd(s0, now_ts)

renew_rig(c, posAcct, profAcct, is_owner, now_ts) ==
    LET rig_type == position_rig_type(load_position_any(posAcct), c)
        renew_save(s2) ==
            IF s2.err # "Ok" THEN s2
            ELSE [s2 EXCEPT !.pos = save_position(ensure_position_v2(posAcct.size), @)]
        renew_from(s1) ==
            renew_save(renew_tail(s1, rig_type, s1.pos.buff_level, now_ts))
    IN  renew_from(renew_head(c, posAcct, profAcct, is_owner, now_ts))

\* the validation loop of renew_rig_with_buff over remaining_accounts:
\* [err, base_total, buffed_total]
RECURSIVE buff_loop(_, _, _, _, _, _, _)
buff_loop(accts, list, i, renewed, owner, c, now_ts) ==
    LET buff_step(r) ==
            LET key == list[i]
                entry == load_position_any(accts[key])
                rig_type == position_rig_type(entry, c)
                base_hp_scaled == position_base_hp_scaled(entry)
                buff_bps == position_buff_bps(entry, rig_type, now_ts)
            IN  IF r.err # "Ok" THEN r
                ELSE IF accts[key].size = "none"
                     THEN [r EXCEPT !.err = "InvalidPositionOwner"]
                ELSE IF key[1] # owner THEN r
                ELSE IF entry.deactivated \/ entry.expired
                            \/ now_ts >= entry.end_ts
                     THEN r
                ELSE IF key = renewed THEN r
                ELSE IF rig_type < 0 THEN [r EXCEPT !.err = "InvalidRigDuration"]
                ELSE [r EXCEPT
                         !.base_total = @ + base_hp_scaled,
                         !.buffed_total = @ + apply_bps(base_hp_scaled, buff_bps)]
    IN  IF i = 0 THEN [err |-> "Ok", base_total |-> 0, buffed_total |-> 0]
        ELSE buff_step(buff_loop(accts, list, i - 1, renewed, owner, c, now_ts))

renew_rig_with_buff(c, accts, pid, profAcct, caller, list, funds_ok, now_ts) ==
    LET posAcct == accts[pid]
        rig_type == position_rig_type(load_position_any(posAcct), c)
        terms == contract_terms(rig_type)
        max_buff == rig_max_buff_level(rig_type)
        old_level == load_position_any(posAcct).buff_level
        new_buff_level == IF old_level < max_buff THEN old_level + 1 ELSE old_level
        renewed_buffed == apply_bps(terms.hp, rig_buff_bps(rig_type, new_buff_level))
        buff_save(s2) ==
            IF s2.err # "Ok" THEN s2
            ELSE [s2 EXCEPT !.pos = save_position(ensure_position_v2(posAcct.size), @)]
        buff_check(s1, loop) ==
            LET base_total_after == loop.base_total + terms.hp
                buffed_total_after == loop.buffed_total + renewed_buffed
                bonus_bps ==
                    ((buffed_total_after - base_total_after) * BPS_DENOMINATOR)
                        \div base_total_after
            IN  IF loop.err # "Ok" THEN Fail(s1, loop.err)
                ELSE IF loop.base_total # s1.prof.active_hp
                     THEN Fail(s1, "InvalidRigBuffPositions")
                ELSE IF base_total_after > 0 /\ bonus_bps > RIG_BUFF_CAP_BPS
                     THEN Fail(s1, "RigBuffCapExceeded")
                ELSE IF ~funds_ok THEN Fail(s1, "InsufficientBuffFunds")
                ELSE buff_save(renew_tail(s1, rig_type, new_buff_level, now_ts))
        buff_from(s1) ==
            IF s1.err # "Ok" THEN s1
            ELSE buff_check(s1, buff_loop(accts, list, Len(list), pid, caller,
                                          s1.cfg, now_ts))
    IN  buff_from(renew_head(c, posAcct, profAcct, pid[1] = caller, now_ts))

\* result also carries reward, hp_used, acc_used
claim_mind(c, posAcct, profAcct, is_owner, now_ts) ==
    LET claim_out(st, reward, hp_used, acc_used) ==
            [err |-> st.err, cfg |-> st.cfg, pos |-> st.pos, prof |-> st.prof,
             upd |-> st.upd, exp_hp |-> st.exp_hp, reward |-> reward,
             hp_used |-> hp_used, acc_used |-> acc_used]
        claim_pay(s1, eff, pending) ==
            IF eff[1] < 0
            THEN claim_out(Fail(s1, "InvalidRigDuration"), 0, eff[1], eff[2])
            ELSE IF pending <= 0
            THEN claim_out(Fail(s1, "NothingToClaim"), 0, eff[1], eff[2])
            ELSE claim_out(
                     [s1 EXCEPT !.pos = save_position(posAcct.size,
                                    [s1.pos EXCEPT !.reward_debt =
                                         earned_per_hp(eff[1], eff[2])])],
                     pending, eff[1], eff[2])
        claim_weigh(s1, eff) ==
            claim_pay(s1, eff,
                      IF eff[1] < 0 THEN 0
                      ELSE pending_mind(eff[1], eff[2], s1.pos.reward_debt))
        claim_settle(s1) ==
            IF s1.err # "Ok" THEN claim_out(s1, 0, 0, Unset)
            ELSE claim_weigh(s1, effective_hp_for_claim(s1.pos, s1.prof.level,
                                                        s1.cfg, now_ts))
        claim_from(s0) ==
            IF posAcct.size = "none"
            THEN claim_out(Fail(s0, "InvalidPositionOwner"), 0, 0, Unset)
            ELSE IF ~is_owner THEN claim_out(Fail(s0, "Unauthorized"), 0, 0, Unset)
            ELSE claim_settle(IF ~s0.pos.deactivated /\ ~s0.pos.expired
                                 /\ now_ts >= s0.pos.end_ts
                              THEN expire_position(s0, now_ts)
                              ELSE Upd(s0, now_ts))
    IN  claim_from(Start(c, load_position_any(posAcct),
                         update_user_xp(ensure_user_profile_v2(profAcct, now_ts),
                                        now_ts)))

\* deactivate_position without its grace check
deactivate_position_in_grace(c, posAcct, profAcct, is_owner, now_ts) ==
    LET deact_out(st, noop) ==
            [err |-> st.err, cfg |-> st.cfg, pos |-> st.pos, prof |-> st.prof,
             upd |-> st.upd, exp_hp |-> st.exp_hp, noop |-> noop]
        deact_save(s2) ==
            IF s2.err # "Ok" THEN deact_out(s2, FALSE)
            ELSE deact_out([s2 EXCEPT !.pos = save_position(posAcct.size, @)], FALSE)
        deact_from(s0, ensured) ==
            IF posAcct.size = "none"
            THEN deact_out(Fail(s0, "InvalidPositionOwner"), FALSE)
            ELSE IF ~is_owner THEN deact_out(Fail(s0, "Unauthorized"), FALSE)
            ELSE IF now_ts < s0.pos.end_ts
                 THEN deact_out(Fail(s0, "PositionNotExpired"), FALSE)
            ELSE IF s0.pos.deactivated
                 THEN deact_out([s0 EXCEPT !.pos = posAcct, !.prof = ensured], TRUE)
            ELSE deact_save(finalize_position(
                                IF ~s0.pos.expired THEN expire_position(s0, now_ts)
                                ELSE Upd(s0, now_ts),
                                now_ts))
        deact_start(ensured) ==
            deact_from(Start(c, load_position_any(posAcct),
                             update_user_xp(ensured, now_ts)),
                       ensured)
    IN  deact_start(ensure_user_profile_v2(profAcct, now_ts))

\* noop = TRUE: the early return for an already deactivated position, which
\* leaves only the profile written by ensure_user_profile_v2
deactivate_position(c, posAcct, profAcct, is_owner, now_ts) ==
    LET deact_out(st, noop) ==
            [err |-> st.err, cfg |-> st.cfg, pos |-> st.pos, prof |-> st.prof,
             upd |-> st.upd, exp_hp |-> st.exp_hp, noop |-> noop]
        deact_save(s2) ==
            IF s2.err # "Ok" THEN deact_out(s2, FALSE)
            ELSE deact_out([s2 EXCEPT !.pos = save_position(posAcct.size, @)], FALSE)
        deact_from(s0, ensured) ==
            IF posAcct.size = "none"
            THEN deact_out(Fail(s0, "InvalidPositionOwner"), FALSE)
            ELSE IF ~is_owner THEN deact_out(Fail(s0, "Unauthorized"), FALSE)
            ELSE IF now_ts < s0.pos.end_ts
                 THEN deact_out(Fail(s0, "PositionNotExpired"), FALSE)
            ELSE IF s0.pos.deactivated
                 THEN deact_out([s0 EXCEPT !.pos = posAcct, !.prof = ensured], TRUE)
            ELSE IF now_ts <= grace_deadline_ts(s0.pos.end_ts, c.seconds_per_day)
                 THEN deact_out(Fail(s0, "PositionInGrace"), FALSE)
            ELSE deact_save(finalize_position(
                                IF ~s0.pos.expired THEN expire_position(s0, now_ts)
                                ELSE Upd(s0, now_ts),
                                now_ts))
        deact_start(ensured) ==
            deact_from(Start(c, load_position_any(posAcct),
                             update_user_xp(ensured, now_ts)),
                       ensured)
    IN  deact_start(ensure_user_profile_v2(profAcct, now_ts))

\* the loop of level_up over remaining_accounts; every entry is rewritten
\* and saved in turn: [err, accts, base_total, buffed_total]
RECURSIVE level_loop(_, _, _, _, _, _, _)
level_loop(accts, list, i, owner, level, c, now_ts) ==
    LET level_step(r) ==
            LET key == list[i]
                position == load_position_any(r.accts[key])
                rig_type == position_rig_type(position, c)
                base_hp_scaled == position_base_hp_scaled(position)
                buff_bps == position_buff_bps(position, rig_type, now_ts)
                hp_effective == effective_hp_scaled(base_hp_scaled, level, buff_bps)
                saved == save_position(r.accts[key].size,
                             [position EXCEPT !.reward_debt =
                                  earned_per_hp(hp_effective, c.acc_mind_per_hp)])
            IN  IF r.err # "Ok" THEN r
                ELSE IF r.accts[key].size = "none"
                     THEN [r EXCEPT !.err = "InvalidPositionOwner"]
                ELSE IF key[1] # owner THEN [r EXCEPT !.err = "Unauthorized"]
                ELSE IF position.deactivated
                     THEN [r EXCEPT !.err = "InvalidLevelUpPositions"]
                ELSE IF position.expired \/ now_ts >= position.end_ts
                     THEN [r EXCEPT !.err = "InvalidLevelUpPositions"]
                ELSE IF rig_type < 0 THEN [r EXCEPT !.err = "InvalidRigDuration"]
                ELSE [r EXCEPT
                         !.accts[key] = saved,
                         !.base_total = @ + base_hp_scaled,
                         !.buffed_total = @ + apply_bps(base_hp_scaled, buff_bps)]
    IN  IF i = 0
        THEN [err |-> "Ok", accts |-> accts, base_total |-> 0, buffed_total |-> 0]
        ELSE level_step(level_loop(accts, list, i - 1, owner, level, c, now_ts))

\* [err, cfg, accts, prof, upd]
level_up(c, accts, profAcct, caller, list, funds_ok, now_ts) ==
    LET level_out(e, cc, aa, pp) ==
            [err |-> e, cfg |-> cc, accts |-> aa, prof |-> pp,
             upd |-> <<<<c, now_ts>>>>]
        level_apply(c1, profile, loop) ==
            LET next_level == profile.level + 1
                old_effective ==
                    apply_bps(loop.buffed_total, level_bonus_bps(profile.level))
                new_effective ==
                    apply_bps(loop.buffed_total, level_bonus_bps(next_level))
                delta == checked_sub(new_effective, old_effective)
            IN  IF loop.err # "Ok" THEN level_out(loop.err, c, accts, profAcct)
                ELSE IF loop.base_total # profile.active_hp
                     THEN level_out("InvalidLevelUpPositions", c, accts, profAcct)
                ELSE IF loop.buffed_total > 0 /\ delta = Underflow
                     THEN level_out("MathOverflow", c, accts, profAcct)
                ELSE level_out("Ok",
                               IF loop.buffed_total > 0
                               THEN [c1 EXCEPT !.network_hp_active = @ + delta]
                               ELSE c1,
                               loop.accts,
                               [profile EXCEPT !.level = profile.level + 1])
        level_from(c1, profile) ==
            IF profile.level >= 6
            THEN level_out("MaxLevelReached", c, accts, profAcct)
            ELSE IF profile.xp < level_threshold(profile.level + 1)
                 THEN level_out("InsufficientXp", c, accts, profAcct)
            ELSE IF level_up_cost(profile.level) <= 0
                 THEN level_out("InvalidLevel", c, accts, profAcct)
            ELSE IF ~funds_ok
                 THEN level_out("InsufficientLevelUpFunds", c, accts, profAcct)
            ELSE level_apply(c1, profile,
                             level_loop(accts, list, Len(list), caller,
                                        profile.level, c1, now_ts))
    IN  level_from(update_mining_global(c, now_ts),
                   update_user_xp(ensure_user_profile_v2(profAcct, now_ts), now_ts))

\* [err, cfg, upd]
\* [err, cfg, stake, prof]; funds_ok: owner_mind_ata holds `amount`
stake_mind(c, stakeAcct, profAcct, caller, amount, funds_ok, now_ts) ==
    LET c1 == update_staking_global(c, now_ts)
        profile == ensure_user_profile_v2(profAcct, now_ts)
        created == IF stakeAcct.owner = ""
                   THEN [NoUserStake EXCEPT !.owner = caller] ELSE stakeAcct
        accrued == accrue_staking_owed(c1, created)
        staked == accrued.staked_mind + amount
        stake_out(e, cc, ss) == [err |-> e, cfg |-> cc, stake |-> ss, prof |-> profile]
    IN  IF amount <= 0 THEN stake_out("InvalidAmount", c, stakeAcct)
        ELSE IF created.owner # caller THEN stake_out("Unauthorized", c, stakeAcct)
        ELSE IF ~funds_ok THEN stake_out("InsufficientFunds", c, stakeAcct)
        ELSE stake_out("Ok",
                 [c1 EXCEPT !.staking_total_staked_mind = @ + amount],
                 [accrued EXCEPT
                     !.staked_mind = staked,
                     !.reward_debt = earned_per_stake(staked,
                                                      c1.staking_acc_xnt_per_mind)])

\* [err, cfg, stake]; the burn of UNSTAKE_BURN_BPS of the amount and the
\* transfer of the rest move MIND only
unstake_mind(c, stakeAcct, caller, amount, now_ts) ==
    LET c1 == update_staking_global(c, now_ts)
        accrued == accrue_staking_owed(c1, stakeAcct)
        staked == checked_sub(accrued.staked_mind, amount)
        total == checked_sub(c1.staking_total_staked_mind, amount)
        unstake_out(e, cc, ss) == [err |-> e, cfg |-> cc, stake |-> ss]
    IN  IF stakeAcct.owner = "" THEN unstake_out("AccountNotInitialized", c, stakeAcct)
        ELSE IF stakeAcct.owner # caller
             THEN unstake_out("ConstraintRaw", c, stakeAcct)
        ELSE IF amount <= 0 THEN unstake_out("InvalidAmount", c, stakeAcct)
        ELSE IF stakeAcct.staked_mind < amount
             THEN unstake_out("InsufficientStake", c, stakeAcct)
        ELSE IF total = Underflow THEN unstake_out("MathOverflow", c, stakeAcct)
        ELSE unstake_out("Ok",
                 [c1 EXCEPT !.staking_total_staked_mind = total],
                 [accrued EXCEPT
                     !.staked_mind = staked,
                     !.reward_debt = earned_per_stake(staked,
                                                      c1.staking_acc_xnt_per_mind)])

\* [err, cfg]; vault_balance = vault_available_lamports(staking_reward_vault)
roll_epoch(c, epoch_seconds, vault_balance, now_ts) ==
    LET c1 == update_staking_global(c, now_ts)
        c2 == IF BigLess(c1.staking_accounted_balance, BigFromInt(vault_balance))
              THEN [c1 EXCEPT
                       !.staking_undistributed_xnt =
                           BigAdd(@, BigFromInt(vault_balance
                                       - BigToInt(c1.staking_accounted_balance))),
                       !.staking_accounted_balance = BigFromInt(vault_balance)]
              ELSE c1
        idle == [c2 EXCEPT !.staking_reward_rate_xnt_per_sec = 0,
                           !.staking_epoch_end_ts = now_ts,
                           !.staking_last_update_ts = now_ts]
        rate == BigToInt(BigDivSmall(c2.staking_undistributed_xnt, epoch_seconds))
    IN  IF epoch_seconds <= 0 THEN [err |-> "InvalidAmount", cfg |-> c]
        ELSE IF c2.staking_total_staked_mind = 0 \/ c2.staking_undistributed_xnt = <<>>
             THEN [err |-> "Ok", cfg |-> idle]
        ELSE IF rate = 0 THEN [err |-> "Ok", cfg |-> idle]
        ELSE [err |-> "Ok",
              cfg |-> [c2 EXCEPT
                          !.staking_undistributed_xnt =
                              BigFromInt(BigToInt(@) - rate * epoch_seconds),
                          !.staking_reward_rate_xnt_per_sec = rate,
                          !.staking_epoch_end_ts = now_ts + epoch_seconds,
                          !.staking_last_update_ts = now_ts]]

admin_set_network_hp_active(c, network_hp_active, now_ts) ==
    [err |-> "Ok",
     cfg |-> [update_mining_global(c, now_ts) EXCEPT
                 !.network_hp_active = network_hp_active],
     upd |-> <<<<c, now_ts>>>>]

\* [err, cfg, upd]
admin_enable_hp_scaling(c, enabled, now_ts) ==
    IF enabled THEN [err |-> "HpScaleAlreadyEnabled", cfg |-> c, upd |-> <<>>]
    ELSE [err |-> "Ok",
          cfg |-> [update_mining_global(c, now_ts) EXCEPT
                      !.network_hp_active = @ * HP_SCALE,
                      !.acc_mind_per_hp = BigDivSmall(@, HP_SCALE)],
          upd |-> <<<<c, now_ts>>>>]

-----------------------------------------------------------------------------
(* mining_v2: state machine                                                *)

InitConfig ==
    [emission_per_sec |-> EmissionPerSec, acc_mind_per_hp |-> <<>>,
     last_update_ts |-> 0, network_hp_active |-> 0,
     max_effective_hp |-> MaxEffectiveHp,
     seconds_per_day |-> SecondsPerDay,
     staking_undistributed_xnt |-> <<>>, staking_accounted_balance |-> <<>>,
     staking_acc_xnt_per_mind |-> <<>>, staking_last_update_ts |-> 0,
     staking_reward_rate_xnt_per_sec |-> 0, staking_epoch_end_ts |-> 0,
     staking_total_staked_mind |-> 0]

\* a MinerPositionV1 record and its owner's UserMiningProfileV1 record, as
\* left by the previous program version, after admin_enable_hp_scaling
LegacyPosition ==
    [NoPosition EXCEPT !.size = "V1", !.hp = LegacyHp,
                       !.end_ts = 14 * SecondsPerDay]

LegacyProfile ==
    [NoProfile EXCEPT !.size = "V1", !.key = "alice", !.owner = "alice",
                      !.next_position_index = 1,
                      !.active_hp = LegacyHp]

NoOp ==
    [op |-> "none", caller |-> "", pid |-> <<"", 0>>, list |-> <<>>,
     expired |-> FALSE, final_acc |-> Unset, acc_end |-> Unset,
     nth |-> 0, frozen |-> FALSE, hp_used |-> 0, acc_used |-> Unset,
     reward |-> 0]

\* the accounts after init_config has written `config`
MiningInitWith(config) ==
    /\ now = 0
    /\ user_stake = [o \in Owners |-> NoUserStake]
    /\ staking_reward_vault = 0
    /\ mind_minted = 0
    /\ emitted = 0
    /\ accAtEnd = [p \in PosIds |-> Unset]
    /\ frozenHp = [p \in PosIds |-> -1]
    /\ expiries = [p \in PosIds |-> 0]
    /\ last = NoOp
    /\ ops = 0
    /\ \E legacy \in BOOLEAN :
         IF legacy
         THEN /\ cfg = [config EXCEPT
                           !.network_hp_active = LegacyHp * HP_SCALE]
              /\ hp_scale_config = TRUE
              /\ profiles = [o \in Owners |->
                               IF o = "alice" THEN LegacyProfile ELSE ProfileAt(o)]
              /\ positions = [p \in PosIds |->
                                IF p = <<"alice", 0>> THEN LegacyPosition
                                ELSE NoPosition]
         ELSE /\ cfg = config
              /\ hp_scale_config = FALSE
              /\ profiles = [o \in Owners |-> ProfileAt(o)]
              /\ positions = [p \in PosIds |-> NoPosition]

MiningInit == MiningInitWith(InitConfig)

\* emission credited to the accumulator by the calls listed in u[1..i]
RECURSIVE EmitOf(_, _)
EmitOf(u, i) ==
    IF i = 0 THEN 0
    ELSE EmitOf(u, i - 1)
           + (IF u[i][2] > u[i][1].last_update_ts /\ u[i][1].network_hp_active > 0
              THEN (u[i][2] - u[i][1].last_update_ts) * u[i][1].emission_per_sec
              ELSE 0)

\* the accumulator value at the end_ts of position pid, once one of the
\* calls listed in u has carried last_update_ts up to or past it
CrossAcc(u, pid) ==
    LET e == positions[pid].end_ts
        hits == {i \in 1..Len(u) : u[i][1].last_update_ts < e /\ e <= u[i][2]}
    IN  IF positions[pid].size = "none" \/ hits = {} THEN accAtEnd[pid]
        ELSE LET i == CHOOSE j \in hits : TRUE
             IN  update_mining_global(u[i][1], e).acc_mind_per_hp

\* history kept by an instruction on position pid that made the calls u;
\* fresh = TRUE when the instruction started a new cycle of pid
Track(u, pid, exp_hp, fresh) ==
    /\ emitted' = emitted + EmitOf(u, Len(u))
    /\ accAtEnd' = [p \in PosIds |->
                      IF p = pid /\ fresh THEN Unset ELSE CrossAcc(u, p)]
    /\ frozenHp' = [frozenHp EXCEPT ![pid] =
                      IF fresh THEN -1 ELSE IF exp_hp >= 0 THEN exp_hp ELSE @]
    /\ expiries' = [expiries EXCEPT ![pid] =
                      IF fresh THEN 0 ELSE IF exp_hp >= 0 THEN @ + 1 ELSE @]

\* what `last` records of the expiry that instruction op applied to pid;
\* nth counts the expiries of the cycle up to and including this one
ExpiryOf(op, caller, pid, r) ==
    [NoOp EXCEPT !.op = op, !.caller = caller, !.pid = pid,
                 !.expired = r.exp_hp >= 0,
                 !.nth = IF r.exp_hp >= 0 THEN expiries[pid] + 1 ELSE 0,
                 !.final_acc = IF r.exp_hp >= 0 THEN r.pos.final_acc_mind_per_hp
                               ELSE Unset,
                 !.acc_end = IF r.exp_hp >= 0 THEN CrossAcc(r.upd, pid) ELSE Unset]

\* remaining_accounts lists of up to MaxListLen position accounts
Lists == UNION {[1..n -> PosIds] : n \in 0..MaxListLen}

\* one more instruction executes
Count == ops < MaxOps /\ ops' = ops + 1

Tick ==
    /\ \E d \in ClockDays :
         /\ d * WallDay > now
         /\ \A e \in ClockDays : e * WallDay > now => d <= e
         /\ now' = d * WallDay
    /\ last' = NoOp
    /\ UNCHANGED <<cfg, profiles, positions, mind_minted, emitted, accAtEnd,
                   frozenHp, expiries, ops>>

BuyContract(caller, contract_type, position_index) ==
    LET pid == <<caller, position_index>>
    IN  /\ Count
        /\ \E r \in {buy_contract(cfg, profiles[caller], contract_type,
                                    position_index, now)} :
            /\ positions[pid].size = "none"
            /\ r.err = "Ok"
            /\ cfg' = r.cfg
            /\ profiles' = [profiles EXCEPT ![caller] = r.prof]
            /\ positions' = [positions EXCEPT ![pid] = r.pos]
            /\ Track(r.upd, pid, -1, TRUE)
            /\ last' = [NoOp EXCEPT !.op = "buy_contract", !.caller = caller,
                                    !.pid = pid]
            /\ UNCHANGED <<now, mind_minted>>

RenewRig(caller, pid) ==
    /\ Count
    /\ \E r \in {renew_rig(cfg, positions[pid], profiles[caller], pid[1] = caller, now)} :
            /\ r.err = "Ok"
            /\ cfg' = r.cfg
            /\ profiles' = [profiles EXCEPT ![caller] = r.prof]
            /\ positions' = [positions EXCEPT ![pid] = r.pos]
            /\ Track(r.upd, pid, -1, TRUE)
            /\ last' = [ExpiryOf("renew_rig", caller, pid, r) EXCEPT
                           !.final_acc = IF r.exp_hp >= 0
                                         THEN renew_head(cfg, positions[pid],
                                                  profiles[caller], TRUE, now)
                                                .pos.final_acc_mind_per_hp
                                         ELSE Unset]
            /\ UNCHANGED <<now, mind_minted>>

RenewRigWithBuff(caller, pid) ==
    /\ Count
    /\ renew_head(cfg, positions[pid], profiles[caller], pid[1] = caller, now).err
         = "Ok"
    /\ \E list \in Lists, funds_ok \in BOOLEAN :
         /\ \E r \in {renew_rig_with_buff(cfg, positions, pid, profiles[caller], caller,
                                          list, funds_ok, now)} :
                 /\ r.err = "Ok"
                 /\ cfg' = r.cfg
                 /\ profiles' = [profiles EXCEPT ![caller] = r.prof]
                 /\ positions' = [positions EXCEPT ![pid] = r.pos]
                 /\ Track(r.upd, pid, -1, TRUE)
                 /\ last' = [ExpiryOf("renew_rig_with_buff", caller, pid, r) EXCEPT
                                !.list = list,
                                !.final_acc = IF r.exp_hp >= 0
                                              THEN renew_head(cfg, positions[pid],
                                                       profiles[caller], TRUE, now)
                                                     .pos.final_acc_mind_per_hp
                                              ELSE Unset]
                 /\ UNCHANGED <<now, mind_minted>>

ClaimMind(caller, pid) ==
    /\ Count
    /\ \E r \in {claim_mind(cfg, positions[pid], profiles[caller], pid[1] = caller, now)} :
            /\ r.err = "Ok"
            /\ cfg' = r.cfg
            /\ profiles' = [profiles EXCEPT ![caller] = r.prof]
            /\ positions' = [positions EXCEPT ![pid] = r.pos]
            /\ mind_minted' = mind_minted + r.reward
            /\ Track(r.upd, pid, r.exp_hp, FALSE)
            /\ last' = [ExpiryOf("claim_mind", caller, pid, r) EXCEPT
                           !.frozen = r.pos.deactivated
                                        \/ load_position_any(positions[pid]).expired
                                        \/ r.exp_hp >= 0,
                           !.hp_used = r.hp_used, !.acc_used = r.acc_used,
                           !.reward = r.reward]
            /\ UNCHANGED now

DeactivatePosition(caller, pid) ==
    /\ Count
    /\ \E r \in {deactivate_position(cfg, positions[pid], profiles[caller],
                                     pid[1] = caller, now)} :
            /\ r.err = "Ok"
            /\ cfg' = r.cfg
            /\ profiles' = [profiles EXCEPT ![caller] = r.prof]
            /\ positions' = [positions EXCEPT ![pid] = r.pos]
            /\ Track(r.upd, pid, r.exp_hp, FALSE)
            /\ last' = ExpiryOf("deactivate_position", caller, pid, r)
            /\ UNCHANGED <<now, mind_minted>>

LevelUp(caller) ==
    /\ Count
    /\ level_up(cfg, positions, profiles[caller], caller, <<>>, TRUE, now).err
         \in {"Ok", "InvalidLevelUpPositions"}
    /\ \E list \in Lists, funds_ok \in BOOLEAN :
         /\ \E r \in {level_up(cfg, positions, profiles[caller], caller, list, funds_ok, now)} :
                 /\ r.err = "Ok"
                 /\ cfg' = r.cfg
                 /\ profiles' = [profiles EXCEPT ![caller] = r.prof]
                 /\ positions' = r.accts
                 /\ emitted' = emitted + EmitOf(r.upd, Len(r.upd))
                 /\ accAtEnd' = [p \in PosIds |-> CrossAcc(r.upd, p)]
                 /\ last' = [NoOp EXCEPT !.op = "level_up", !.caller = caller,
                                         !.list = list]
                 /\ UNCHANGED <<now, mind_minted, frozenHp, expiries>>

\* values the admin passes to admin_set_network_hp_active
NetworkHpValues == {0, contract_terms(1).hp}

AdminSetNetworkHpActive(network_hp_active) ==
    /\ Count
    /\ \E r \in {admin_set_network_hp_active(cfg, network_hp_active, now)} :
            /\ r.err = "Ok"
            /\ cfg' = r.cfg
            /\ emitted' = emitted + EmitOf(r.upd, Len(r.upd))
            /\ accAtEnd' = [p \in PosIds |-> CrossAcc(r.upd, p)]
            /\ last' = [NoOp EXCEPT !.op = "admin_set_network_hp_active"]
            /\ UNCHANGED <<now, profiles, positions, mind_minted, frozenHp,
                           expiries, hp_scale_config>>

AdminEnableHpScaling ==
    /\ Count
    /\ \E r \in {admin_enable_hp_scaling(cfg, hp_scale_config, now)} :
            /\ r.err = "Ok"
            /\ cfg' = r.cfg
            /\ hp_scale_config' = TRUE
            /\ emitted' = emitted + EmitOf(r.upd, Len(r.upd))
            /\ accAtEnd' = [p \in PosIds |-> CrossAcc(r.upd, p)]
            /\ last' = [NoOp EXCEPT !.op = "admin_enable_hp_scaling"]
            /\ UNCHANGED <<now, profiles, positions, mind_minted, frozenHp,
                           expiries>>

\* a call of update_mining_global at the clock value t
UpdateMiningGlobal(t) ==
    /\ Count
    /\ t >= now
    /\ now' = t
    /\ cfg' = update_mining_global(cfg, t)
    /\ last' = [NoOp EXCEPT !.op = "update_mining_global"]
    /\ UNCHANGED <<profiles, positions, mind_minted, emitted, accAtEnd,
                   frozenHp, expiries, hp_scale_config>>

\* a call of update_staking_global at the clock value t
UpdateStakingGlobal(t) ==
    /\ Count
    /\ t >= now
    /\ now' = t
    /\ cfg' = update_staking_global(cfg, t)
    /\ last' = [NoOp EXCEPT !.op = "update_staking_global"]
    /\ UNCHANGED <<profiles, positions, mind_minted, emitted, accAtEnd,
                   frozenHp, expiries, hp_scale_config>>

StakeMind(caller, amount) ==
    /\ Count
    /\ \E funds_ok \in BOOLEAN :
         \E r \in {stake_mind(cfg, user_stake[caller], profiles[caller], caller,
                              amount, funds_ok, now)} :
            /\ r.err = "Ok"
            /\ cfg' = r.cfg
            /\ user_stake' = [user_stake EXCEPT ![caller] = r.stake]
            /\ profiles' = [profiles EXCEPT ![caller] = r.prof]
            /\ last' = [NoOp EXCEPT !.op = "stake_mind", !.caller = caller]
            /\ UNCHANGED <<now, positions, mind_minted, emitted, accAtEnd,
                           frozenHp, expiries, hp_scale_config,
                           staking_reward_vault>>

UnstakeMind(caller, amount) ==
    /\ Count
    /\ \E r \in {unstake_mind(cfg, user_stake[caller], caller, amount, now)} :
            /\ r.err = "Ok"
            /\ cfg' = r.cfg
            /\ user_stake' = [user_stake EXCEPT ![caller] = r.stake]
            /\ last' = [NoOp EXCEPT !.op = "unstake_mind", !.caller = caller]
            /\ UNCHANGED <<now, profiles, positions, mind_minted, emitted,
                           accAtEnd, frozenHp, expiries, hp_scale_config,
                           staking_reward_vault>>

RollEpoch(epoch_seconds) ==
    /\ Count
    /\ \E r \in {roll_epoch(cfg, epoch_seconds, staking_reward_vault, now)} :
            /\ r.err = "Ok"
            /\ cfg' = r.cfg
            /\ last' = [NoOp EXCEPT !.op = "roll_epoch"]
            /\ UNCHANGED <<now, profiles, positions, mind_minted, emitted,
                           accAtEnd, frozenHp, expiries, hp_scale_config,
                           user_stake, staking_reward_vault>>

\* a plain system transfer of lamports into staking_reward_vault, which no
\* instruction of the program sees
TransferToVault(amount) ==
    /\ staking_reward_vault = 0
    /\ staking_reward_vault' = staking_reward_vault + amount
    /\ last' = NoOp
    /\ UNCHANGED <<miningVars_but_last, user_stake>>

-----------------------------------------------------------------------------
(* mining_v2: state functions the properties are stated with               *)

\* the level the owner's profile record decodes to
LevelOf(owner) == load_user_profile_any(profiles[owner]).level

\* a position record that exists and carries neither flag
Live(pid) ==
    /\ positions[pid].size # "none"
    /\ ~load_position_any(positions[pid]).expired
    /\ ~load_position_any(positions[pid]).deactivated

\* effective_hp_scaled of the position with its owner's current level
WeightOf(pid) ==
    LET p == load_position_any(positions[pid])
    IN  effective_hp_scaled(position_base_hp_scaled(p), LevelOf(pid[1]),
                            position_buff_bps(p, position_rig_type(p, cfg), now))

\* pending_mind of the position as claim_mind computes it from the stored state
PendingOf(pid) ==
    IF positions[pid].size = "none" THEN 0
    ELSE LET eff == effective_hp_for_claim(load_position_any(positions[pid]),
                                           LevelOf(pid[1]), cfg, now)
         IN  pending_mind(eff[1], eff[2], positions[pid].reward_debt)

RECURSIVE SumPendingOver(_)
SumPendingOver(S) ==
    IF S = {} THEN 0
    ELSE LET x == CHOOSE y \in S : TRUE
         IN  PendingOf(x) + SumPendingOver(S \ {x})

SumPending == SumPendingOver(PosIds)

RECURSIVE SumWeightOver(_)
SumWeightOver(S) ==
    IF S = {} THEN 0
    ELSE LET x == CHOOSE y \in S : TRUE
         IN  WeightOf(x) + SumWeightOver(S \ {x})

SumLiveWeight == SumWeightOver({pid \in PosIds : Live(pid)})

Range(f) == {f[i] : i \in DOMAIN f}

\* position_base_hp_scaled summed over the positions in S
RECURSIVE SumBaseHpOver(_)
SumBaseHpOver(S) ==
    IF S = {} THEN 0
    ELSE LET x == CHOOSE y \in S : TRUE
         IN  position_base_hp_scaled(load_position_any(positions[x]))
               + SumBaseHpOver(S \ {x})

\* active_hp of the owner's profile as the program decodes it
ActiveHpOf(owner) ==
    IF profiles[owner].size = "none" THEN 0
    ELSE ensure_profile_hp_scaled(load_user_profile_any(profiles[owner])).active_hp

-----------------------------------------------------------------------------
(* mining_v2: properties                                                   *)

\* C1: whenever an instruction applies the Active->Expired transition to a
\* position, the final_acc_mind_per_hp it stores equals the value of the
\* accumulator at the position's end_ts, whatever other instructions ran
\* between end_ts and now.
C1_FinalAccIsAccAtEnd == last.expired => last.final_acc = last.acc_end

\* C2: right after a successful level_up, every listed position has
\* reward_debt = earned_per_hp(weight with the owner's new level, current
\* accumulator), i.e. its pending_mind at the same timestamp is 0.
C2_LevelUpDebtUsesNewLevel ==
    last.op = "level_up" =>
        \A i \in 1..Len(last.list) :
            /\ positions[last.list[i]].reward_debt
                 = earned_per_hp(WeightOf(last.list[i]), cfg.acc_mind_per_hp)
            /\ PendingOf(last.list[i]) = 0

\* C3: a claim_mind on an expired or deactivated position pays with
\* final_acc_mind_per_hp and with the effective weight the position had when
\* it expired, so a level_up after the expiry does not change the payout.
C3_ClaimUsesFrozenWeight ==
    (last.op = "claim_mind" /\ last.frozen) =>
        /\ last.acc_used = positions[last.pid].final_acc_mind_per_hp
        /\ last.hp_used = frozenHp[last.pid]

\* C4: right after the accumulator is advanced, MIND minted so far plus the
\* pending_mind of all positions never exceeds the emission credited over
\* the intervals with network_hp_active > 0.
C4_MintedPlusPendingWithinEmission ==
    cfg.last_update_ts = now => mind_minted + SumPending <= emitted

\* C5: right after a successful claim_mind nothing is pending on the same
\* position at the same timestamp: a second claim_mind on it does not
\* succeed, so it mints nothing.
C5_NothingLeftAfterClaim ==
    last.op = "claim_mind" =>
        claim_mind(cfg, positions[last.pid], profiles[last.caller], TRUE, now).err
            # "Ok"

\* C7: network_hp_active equals the sum of effective_hp_scaled(base hp,
\* owner's current level, buff bps) over the positions with expired = false
\* and deactivated = false.
C7_NetworkHpIsSumOfLiveWeights == cfg.network_hp_active = SumLiveWeight

\* C8: the Active->Expired transition is applied at most once per activation
\* cycle of a position, whichever record size the position is stored in.
C8_ExpiredAtMostOncePerCycle ==
    /\ \A pid \in PosIds : expiries[pid] <= 1
    /\ last.nth <= 1

\* C9: a level_up or renew_rig_with_buff that succeeds was given every live
\* position of the owner (other than the one being renewed): a repeated list
\* entry never stands in for a live position that was left out.
C9_ListCoversLivePositions ==
    last.op \in {"level_up", "renew_rig_with_buff"} =>
        \A pid \in PosIds :
            (pid[1] = last.caller /\ pid # last.pid /\ Live(pid))
                => pid \in Range(last.list)

-----------------------------------------------------------------------------
(* pocm_vault_mining: constants                                            *)

\* BPS_DENOMINATOR has the same name and value as in mining_v2
SECONDS_PER_DAY == 86400
\* STAKING_REWARD_SCALE = 10^18 = LimbBase^6
StakingRewardScaleLimbs == 6

(* pocm_vault_mining: bounds of the model                                  *)

\* InitializeParams
TotalSupplyMind == 1000
MinedCapPctBps == 2000
XntDecimals == 1
MindReward7d == 70
MindReward14d == 280
MindReward28d == 840
XpPer7d == 1
XpPer14d == 2
XpTierSilver == 2
XpBoostSilverBps == 500
\* number of instructions executed in one behaviour
MaxPocmOps == 4
\* XNT recorded in staking_reward_pending at the start of SpecStake
StakingFunded == 100
\* MIND locked by one create_stake
StakeAmount == 100

\* days the clock visits, durations and amounts passed to the instructions
PocmClockDays == {0, 3, 7, 14}
Durations == {7, 14}
ClaimAmounts == {10, 30, 60, StakingFunded}
StakeAmounts == {StakeAmount}
FundAmounts == {StakingFunded}

-----------------------------------------------------------------------------
(* pocm_vault_mining: pure helpers                                         *)

\* None is -1
time_multiplier_for_duration(duration_days) ==
    CASE duration_days = 7 -> 10000
      [] duration_days = 14 -> 12000
      [] duration_days \in {28, 30} -> 14000
      [] OTHER -> -1

RECURSIVE ten_pow(_)
ten_pow(decimals) == IF decimals = 0 THEN 1 ELSE 10 * ten_pow(decimals - 1)

\* -1: the call fails
fee_for_duration(duration_days, xnt_decimals) ==
    LET base == ten_pow(xnt_decimals)
    IN  CASE duration_days = 7 -> IF xnt_decimals > 0 THEN base \div 10 ELSE -1
          [] duration_days = 14 -> base
          [] duration_days \in {28, 30} -> base * 5
          [] OTHER -> -1

xp_for_duration(duration_days, c) ==
    CASE duration_days = 7 -> c.xp_per_7d
      [] duration_days = 14 -> c.xp_per_14d
      [] duration_days \in {28, 30} -> c.xp_per_30d
      [] OTHER -> -1

\* -1: the call fails (InvalidDuration, or InvalidAmount for a zero reward)
reward_for_duration(duration_days, c) ==
    LET reward == CASE duration_days = 7 -> c.mind_reward_7d
                    [] duration_days = 14 -> c.mind_reward_14d
                    [] duration_days \in {28, 30} -> c.mind_reward_28d
                    [] OTHER -> -1
    IN  IF reward > 0 THEN reward ELSE -1

tier_from_xp(xp, c) ==
    IF xp >= c.xp_tier_diamond THEN <<3, c.xp_boost_diamond_bps>>
    ELSE IF xp >= c.xp_tier_gold THEN <<2, c.xp_boost_gold_bps>>
    ELSE IF xp >= c.xp_tier_silver THEN <<1, c.xp_boost_silver_bps>>
    ELSE <<0, 0>>

\* the profile and the Config after the call, as <<profile, Config>>
apply_mining_xp(profile, c, xp_gain) ==
    LET xp == profile.mining_xp + xp_gain
        t == tier_from_xp(xp, c)
    IN  << [profile EXCEPT !.mining_xp = xp, !.xp_tier = t[1],
                           !.xp_boost_bps = t[2]],
           [c EXCEPT !.total_xp = @ + xp_gain] >>

is_valid_staking_duration(duration) == duration \in {7, 14, 30, 60}

staking_duration_multiplier_bps(duration) ==
    CASE duration = 7 -> 10000
      [] duration = 14 -> 11000
      [] duration = 30 -> 12500
      [] duration = 60 -> 15000
      [] OTHER -> -1

staking_weight(amount, duration, xp_boost_bps) ==
    LET duration_mult == staking_duration_multiplier_bps(duration)
        base == (amount * duration_mult) \div BPS_DENOMINATOR
        boost == 10000 + xp_boost_bps
    IN  (base * boost) \div BPS_DENOMINATOR

\* weight * staking_reward_per_weight / STAKING_REWARD_SCALE
accrued_for_weight(weight, per_weight) ==
    BigToInt(BigShiftDown(BigMulSmall(per_weight, weight), StakingRewardScaleLimbs))

\* amount * STAKING_REWARD_SCALE / total_staked_mind
reward_delta(amount, total_staked_mind) ==
    BigDivSmall(BigShiftUp(BigFromInt(amount), StakingRewardScaleLimbs),
                total_staked_mind)

accrue_staking_rewards(c, amount) ==
    IF amount = 0 THEN c
    ELSE IF c.total_staked_mind = 0
    THEN [c EXCEPT !.staking_reward_pending = @ + amount]
    ELSE [c EXCEPT !.staking_reward_per_weight =
                       BigAdd(@, reward_delta(amount, c.total_staked_mind))]

\* apply_pending_staking_rewards without the reset of staking_reward_pending
apply_pending_staking_rewards_kept(c) ==
    IF c.total_staked_mind = 0 \/ c.staking_reward_pending = 0 THEN c
    ELSE [c EXCEPT !.staking_reward_per_weight =
                       BigAdd(@, reward_delta(c.staking_reward_pending,
                                              c.total_staked_mind))]

apply_pending_staking_rewards(c) ==
    IF c.total_staked_mind = 0 \/ c.staking_reward_pending = 0 THEN c
    ELSE [c EXCEPT !.staking_reward_per_weight =
                       BigAdd(@, reward_delta(c.staking_reward_pending,
                                              c.total_staked_mind)),
                   !.staking_reward_pending = 0]

-----------------------------------------------------------------------------
(* pocm_vault_mining: accounts.  An account that does not exist (never     *)
(* created, or closed) has owner "".  The fields bump, last_active_epoch   *)
(* and last_claimed_epoch are written but never read and are left out.     *)

PocmNoProfile ==
    [owner |-> "", next_position_index |-> 0, next_stake_index |-> 0,
     mining_xp |-> 0, xp_tier |-> 0, xp_boost_bps |-> 0]

PocmNoPosition ==
    [owner |-> "", locked_amount |-> 0, lock_start_ts |-> 0, lock_end_ts |-> 0,
     duration_days |-> 0, time_multiplier_bps |-> 0, accrued_owed |-> 0]

NoStake ==
    [owner |-> "", amount |-> 0, start_ts |-> 0, lock_end_ts |-> 0,
     duration_days |-> 0, xp_boost_bps |-> 0, reward_debt |-> 0,
     last_claim_ts |-> 0, stake_index |-> 0]

-----------------------------------------------------------------------------
(* pocm_vault_mining: instruction handlers, as functions of the accounts   *)
(* passed.  err is "Ok" or the error that aborts the instruction.          *)

create_position(profAcct, caller, duration_days, position_index) ==
    LET time_multiplier_bps == time_multiplier_for_duration(duration_days)
        prof == IF profAcct.owner = ""
                THEN [PocmNoProfile EXCEPT !.owner = caller]
                ELSE profAcct
        bad(e) == [err |-> e, prof |-> profAcct, pos |-> PocmNoPosition]
    IN  IF time_multiplier_bps < 0 THEN bad("InvalidDuration")
        ELSE IF prof.owner # caller THEN bad("Unauthorized")
        ELSE IF position_index # prof.next_position_index
        THEN bad("InvalidPositionIndex")
        ELSE [err |-> "Ok",
              prof |-> [prof EXCEPT !.next_position_index = @ + 1],
              pos |-> [PocmNoPosition EXCEPT
                          !.owner = caller,
                          !.duration_days = duration_days,
                          !.time_multiplier_bps = time_multiplier_bps]]

\* deposit without the check that the position is not funded yet
deposit_again(c, profAcct, posAcct, caller, amount, now_ts) ==
    LET bad(e) == [err |-> e, cfg |-> c, prof |-> profAcct, pos |-> posAcct,
                   share |-> 0]
        expected_fee == fee_for_duration(posAcct.duration_days, c.xnt_decimals)
        lock_day_seconds == IF c.allow_epoch_seconds_edit THEN c.epoch_seconds
                            ELSE SECONDS_PER_DAY
        lock_duration == posAcct.duration_days * lock_day_seconds
        staking_share == amount \div 4
        c1 == IF staking_share > 0 THEN accrue_staking_rewards(c, staking_share)
              ELSE c
        xp == apply_mining_xp(profAcct, c1,
                              xp_for_duration(posAcct.duration_days, c1))
    IN  IF amount <= 0 THEN bad("InvalidAmount")
        ELSE IF posAcct.owner # caller \/ profAcct.owner # caller
        THEN bad("Unauthorized")
        ELSE IF time_multiplier_for_duration(posAcct.duration_days) < 0
        THEN bad("InvalidDuration")
        ELSE IF expected_fee < 0 THEN bad("InvalidAmount")
        ELSE IF amount # expected_fee THEN bad("InvalidFeeAmount")
        ELSE [err |-> "Ok", cfg |-> xp[2], prof |-> xp[1],
              pos |-> [posAcct EXCEPT !.locked_amount = amount,
                                      !.lock_start_ts = now_ts,
                                      !.lock_end_ts = now_ts + lock_duration,
                                      !.accrued_owed = 0],
              share |-> staking_share]

\* c is the Config the handler ends with in memory, share the XNT moved into
\* staking_vault_xnt_ata
deposit(c, profAcct, posAcct, caller, amount, now_ts) ==
    LET bad(e) == [err |-> e, cfg |-> c, prof |-> profAcct, pos |-> posAcct,
                   share |-> 0]
        expected_fee == fee_for_duration(posAcct.duration_days, c.xnt_decimals)
        lock_day_seconds == IF c.allow_epoch_seconds_edit THEN c.epoch_seconds
                            ELSE SECONDS_PER_DAY
        lock_duration == posAcct.duration_days * lock_day_seconds
        staking_share == amount \div 4
        c1 == IF staking_share > 0 THEN accrue_staking_rewards(c, staking_share)
              ELSE c
        xp == apply_mining_xp(profAcct, c1,
                              xp_for_duration(posAcct.duration_days, c1))
    IN  IF amount <= 0 THEN bad("InvalidAmount")
        ELSE IF posAcct.owner # caller \/ profAcct.owner # caller
        THEN bad("Unauthorized")
        ELSE IF posAcct.locked_amount # 0 THEN bad("PositionActive")
        ELSE IF time_multiplier_for_duration(posAcct.duration_days) < 0
        THEN bad("InvalidDuration")
        ELSE IF expected_fee < 0 THEN bad("InvalidAmount")
        ELSE IF amount # expected_fee THEN bad("InvalidFeeAmount")
        ELSE [err |-> "Ok", cfg |-> xp[2], prof |-> xp[1],
              pos |-> [posAcct EXCEPT !.locked_amount = amount,
                                      !.lock_start_ts = now_ts,
                                      !.lock_end_ts = now_ts + lock_duration,
                                      !.accrued_owed = 0],
              share |-> staking_share]

\* create_stake that weighs the position without the boost it stores
create_stake_unboosted(c, profAcct, caller, duration_days, position_index, amount, now_ts) ==
    LET bad(e) == [err |-> e, cfg |-> c, prof |-> profAcct, stake |-> NoStake]
        lock_day_seconds == IF c.allow_epoch_seconds_edit THEN c.epoch_seconds
                            ELSE SECONDS_PER_DAY
        weight == staking_weight(amount, duration_days, 0)
        c1 == [c EXCEPT !.total_staked_mind = @ + weight]
    IN  IF amount <= 0 THEN bad("InvalidAmount")
        ELSE IF profAcct.owner # caller THEN bad("AccountNotInitialized")
        ELSE IF ~is_valid_staking_duration(duration_days)
        THEN bad("InvalidStakingDuration")
        ELSE IF position_index # profAcct.next_stake_index
        THEN bad("InvalidPositionIndex")
        ELSE [err |-> "Ok",
              cfg |-> apply_pending_staking_rewards(c1),
              prof |-> [profAcct EXCEPT !.next_stake_index = @ + 1],
              stake |-> [owner |-> caller, amount |-> amount,
                         start_ts |-> now_ts,
                         lock_end_ts |-> now_ts + duration_days * lock_day_seconds,
                         duration_days |-> duration_days,
                         xp_boost_bps |-> profAcct.xp_boost_bps,
                         reward_debt |->
                             accrued_for_weight(weight, c1.staking_reward_per_weight),
                         last_claim_ts |-> now_ts,
                         stake_index |-> position_index]]

create_stake(c, profAcct, caller, duration_days, position_index, amount, now_ts) ==
    LET bad(e) == [err |-> e, cfg |-> c, prof |-> profAcct, stake |-> NoStake]
        lock_day_seconds == IF c.allow_epoch_seconds_edit THEN c.epoch_seconds
                            ELSE SECONDS_PER_DAY
        weight == staking_weight(amount, duration_days, profAcct.xp_boost_bps)
        c1 == [c EXCEPT !.total_staked_mind = @ + weight]
    IN  IF amount <= 0 THEN bad("InvalidAmount")
        ELSE IF profAcct.owner # caller THEN bad("AccountNotInitialized")
        ELSE IF ~is_valid_staking_duration(duration_days)
        THEN bad("InvalidStakingDuration")
        ELSE IF position_index # profAcct.next_stake_index
        THEN bad("InvalidPositionIndex")
        ELSE [err |-> "Ok",
              cfg |-> apply_pending_staking_rewards(c1),
              prof |-> [profAcct EXCEPT !.next_stake_index = @ + 1],
              stake |-> [owner |-> caller, amount |-> amount,
                         start_ts |-> now_ts,
                         lock_end_ts |-> now_ts + duration_days * lock_day_seconds,
                         duration_days |-> duration_days,
                         xp_boost_bps |-> profAcct.xp_boost_bps,
                         reward_debt |->
                             accrued_for_weight(weight, c1.staking_reward_per_weight),
                         last_claim_ts |-> now_ts,
                         stake_index |-> position_index]]

\* accrued.saturating_sub(reward_debt) of a staking position
stake_claimable(c, stakeAcct) ==
    Max(0, accrued_for_weight(
               staking_weight(stakeAcct.amount, stakeAcct.duration_days,
                              stakeAcct.xp_boost_bps),
               c.staking_reward_per_weight) - stakeAcct.reward_debt)

\* variant of debt_after_claim that settles the whole claimable reward
debt_after_claim_settled(reward_debt, amount, claimable) == reward_debt + claimable

\* the reward_debt claim_stake_reward leaves behind
debt_after_claim(reward_debt, amount, claimable) == reward_debt + amount

\* claimable is the claimable reward the handler computed
claim_stake_reward(c, stakeAcct, caller, amount, vault_balance, now_ts) ==
    LET c1 == apply_pending_staking_rewards(c)
        claimable == stake_claimable(c1, stakeAcct)
        bad(e) == [err |-> e, cfg |-> c, stake |-> stakeAcct, claimable |-> 0]
    IN  IF stakeAcct.owner # caller THEN bad("AccountNotInitialized")
        ELSE IF amount <= 0 THEN bad("InvalidAmount")
        ELSE IF c.total_staked_mind <= 0 THEN bad("NoStakedTokens")
        ELSE IF vault_balance < amount THEN bad("InsufficientVaultBalance")
        ELSE IF claimable <= 0 THEN bad("NoStakingRewards")
        ELSE IF amount > claimable THEN bad("ClaimAmountTooLarge")
        ELSE [err |-> "Ok", cfg |-> c1,
              stake |-> [stakeAcct EXCEPT
                            !.reward_debt = debt_after_claim(@, amount, claimable),
                            !.last_claim_ts = now_ts],
              claimable |-> claimable]

\* the account is closed when the instruction succeeds
withdraw_stake(c, stakeAcct, caller, now_ts) ==
    LET weight == staking_weight(stakeAcct.amount, stakeAcct.duration_days,
                                 stakeAcct.xp_boost_bps)
        bad(e) == [err |-> e, cfg |-> c, stake |-> stakeAcct]
    IN  IF stakeAcct.owner # caller THEN bad("AccountNotInitialized")
        ELSE IF now_ts < stakeAcct.lock_end_ts THEN bad("LockNotFinished")
        ELSE IF c.total_staked_mind < weight THEN bad("MathOverflow")
        ELSE [err |-> "Ok",
              cfg |-> [c EXCEPT !.total_staked_mind = @ - weight],
              stake |-> NoStake]

\* what one pass of claim over a listed account counts as claimable: 0 for an
\* account it skips, -1 when reward_for_duration fails
position_claimable(position, caller, c, now_ts) ==
    LET total_reward_for_position == reward_for_duration(position.duration_days, c)
        duration_seconds == position.lock_end_ts - position.lock_start_ts
        elapsed_seconds ==
            Max(Min(now_ts, position.lock_end_ts) - position.lock_start_ts, 0)
        accrued == (total_reward_for_position * elapsed_seconds)
                       \div duration_seconds
    IN  IF position.owner # caller THEN 0
        ELSE IF position.locked_amount = 0 THEN 0
        ELSE IF now_ts <= position.lock_start_ts THEN 0
        ELSE IF total_reward_for_position < 0 THEN -1
        ELSE IF duration_seconds <= 0 \/ elapsed_seconds <= 0 THEN 0
        ELSE Max(0, accrued - position.accrued_owed)

\* first loop of claim over list[i..]: total_claimable, or -1 when it fails
RECURSIVE claim_total(_, _, _, _, _, _)
claim_total(accts, list, i, caller, c, now_ts) ==
    IF i > Len(list) THEN 0
    ELSE LET claimable == position_claimable(accts[list[i]], caller, c, now_ts)
             rest == claim_total(accts, list, i + 1, caller, c, now_ts)
         IN  IF claimable < 0 \/ rest < 0 THEN -1 ELSE claimable + rest

\* second loop of claim over list[i..]: each account is read again after the
\* previous entries were written back
RECURSIVE claim_settle(_, _, _, _, _, _, _)
claim_settle(accts, list, i, caller, c, now_ts, remaining_amount) ==
    IF i > Len(list) \/ remaining_amount = 0 THEN accts
    ELSE LET pid == list[i]
             claimable == position_claimable(accts[pid], caller, c, now_ts)
             take == Min(remaining_amount, claimable)
         IN  IF claimable <= 0
             THEN claim_settle(accts, list, i + 1, caller, c, now_ts,
                               remaining_amount)
             ELSE claim_settle(
                      [accts EXCEPT ![pid].accrued_owed = @ + take],
                      list, i + 1, caller, c, now_ts, remaining_amount - take)

\* claim with the remaining cap left out of max_claimable
claim_uncapped(c, accts, caller, list, amount, now_ts) ==
    LET total_claimable == claim_total(accts, list, 1, caller, c, now_ts)
        remaining == c.mined_cap - c.mined_total
        max_claimable == total_claimable
        bad(e) == [err |-> e, cfg |-> c, accts |-> accts, minted |-> 0]
    IN  IF amount <= 0 THEN bad("InvalidAmount")
        ELSE IF total_claimable < 0 THEN bad("InvalidAmount")
        ELSE IF remaining < 0 THEN bad("EmissionDepleted")
        ELSE IF max_claimable <= 0 THEN bad("NothingToClaim")
        ELSE IF amount > max_claimable THEN bad("ClaimAmountTooLarge")
        ELSE [err |-> "Ok",
              cfg |-> [c EXCEPT !.mined_total = @ + amount],
              accts |-> claim_settle(accts, list, 1, caller, c, now_ts, amount),
              minted |-> amount]

claim(c, accts, caller, list, amount, now_ts) ==
    LET total_claimable == claim_total(accts, list, 1, caller, c, now_ts)
        remaining == c.mined_cap - c.mined_total
        max_claimable == Min(total_claimable, remaining)
        bad(e) == [err |-> e, cfg |-> c, accts |-> accts, minted |-> 0]
    IN  IF amount <= 0 THEN bad("InvalidAmount")
        ELSE IF total_claimable < 0 THEN bad("InvalidAmount")
        ELSE IF remaining < 0 THEN bad("EmissionDepleted")
        ELSE IF max_claimable <= 0 THEN bad("NothingToClaim")
        ELSE IF amount > max_claimable THEN bad("ClaimAmountTooLarge")
        ELSE [err |-> "Ok",
              cfg |-> [c EXCEPT !.mined_total = @ + amount],
              accts |-> claim_settle(accts, list, 1, caller, c, now_ts, amount),
              minted |-> amount]

\* c is the Config the handler ends with in memory, share the XNT moved into
\* staking_vault_xnt_ata
admin_fund_staking_xnt(c, amount) ==
    IF amount <= 0 THEN [err |-> "InvalidAmount", cfg |-> c, share |-> 0]
    ELSE [err |-> "Ok", cfg |-> accrue_staking_rewards(c, amount),
          share |-> amount]

\* the account is closed when the instruction succeeds
withdraw(posAcct, caller, now_ts) ==
    IF posAcct.owner # caller THEN [err |-> "Unauthorized", pos |-> posAcct]
    ELSE IF posAcct.locked_amount <= 0
    THEN [err |-> "InactivePosition", pos |-> posAcct]
    ELSE IF now_ts < posAcct.lock_end_ts
    THEN [err |-> "LockNotFinished", pos |-> posAcct]
    ELSE [err |-> "Ok", pos |-> PocmNoPosition]

-----------------------------------------------------------------------------
(* pocm_vault_mining: state machine                                        *)

\* the Config written by initialize
PocmInitConfig ==
    [xnt_decimals |-> XntDecimals,
     epoch_seconds |-> SECONDS_PER_DAY,
     allow_epoch_seconds_edit |-> FALSE,
     mined_total |-> 0,
     mined_cap |-> (TotalSupplyMind * MinedCapPctBps) \div BPS_DENOMINATOR,
     xp_per_7d |-> XpPer7d, xp_per_14d |-> XpPer14d,
     xp_per_30d |-> XpPer7d + XpPer14d,
     xp_tier_silver |-> XpTierSilver, xp_tier_gold |-> 2 * XpTierSilver,
     xp_tier_diamond |-> 3 * XpTierSilver,
     xp_boost_silver_bps |-> XpBoostSilverBps,
     xp_boost_gold_bps |-> 2 * XpBoostSilverBps,
     xp_boost_diamond_bps |-> 3 * XpBoostSilverBps,
     total_staked_mind |-> 0, total_xp |-> 0,
     mind_reward_7d |-> MindReward7d, mind_reward_14d |-> MindReward14d,
     mind_reward_28d |-> MindReward28d,
     staking_reward_per_weight |-> <<>>, staking_reward_pending |-> 0]

PocmNoOp ==
    [op |-> "none", caller |-> "", list |-> <<>>, amount |-> 0, minted |-> 0,
     claimable |-> 0, owed |-> 0, sid |-> <<"", 0>>, stake_claimable |-> 0,
     share |-> 0, weight |-> 0]

\* state after initialize
PocmInit ==
    /\ pocm_now = 0
    /\ pocm_cfg = PocmInitConfig
    /\ pocm_profiles = [o \in Owners |-> PocmNoProfile]
    /\ pocm_positions = [p \in PosIds |-> PocmNoPosition]
    /\ pocm_stakes = [p \in PosIds |-> NoStake]
    /\ pocm_vault_xnt = 0
    /\ pocm_minted = 0
    /\ pocm_last = PocmNoOp
    /\ pocm_ops = 0

\* claim_stake_reward pays only out of a reward recorded in the Config, and
\* the two instructions that record one, deposit and admin_fund_staking_xnt,
\* take the Config without `mut`, so that what they record is not written
\* back.  To exercise claim_stake_reward the staking specification therefore
\* starts from a Config in which StakingFunded XNT, held by the staking
\* vault, are recorded in staking_reward_pending.
StakeInit ==
    /\ pocm_now = 0
    /\ pocm_cfg = [PocmInitConfig EXCEPT !.staking_reward_pending = StakingFunded]
    /\ pocm_profiles = [o \in Owners |-> PocmNoProfile]
    /\ pocm_positions = [p \in PosIds |-> PocmNoPosition]
    /\ pocm_stakes = [p \in PosIds |-> NoStake]
    /\ pocm_vault_xnt = StakingFunded
    /\ pocm_minted = 0
    /\ pocm_last = PocmNoOp
    /\ pocm_ops = 0

\* one more instruction executes
PocmCount == pocm_ops < MaxPocmOps /\ pocm_ops' = pocm_ops + 1

\* sum of position_claimable over the positions in S
RECURSIVE ClaimableOver(_, _)
ClaimableOver(S, caller) ==
    IF S = {} THEN 0
    ELSE LET p == CHOOSE q \in S : TRUE
         IN  position_claimable(pocm_positions[p], caller, pocm_cfg, pocm_now)
                 + ClaimableOver(S \ {p}, caller)

\* sum of accrued_owed over the positions in S
RECURSIVE OwedOver(_)
OwedOver(S) ==
    IF S = {} THEN 0
    ELSE LET p == CHOOSE q \in S : TRUE
         IN  pocm_positions[p].accrued_owed + OwedOver(S \ {p})

\* the distinct positions of the caller among the accounts of a list
OwnListed(list, caller) ==
    {list[i] : i \in DOMAIN list} \cap {p \in PosIds : pocm_positions[p].owner = caller}

PocmTick ==
    /\ \E d \in PocmClockDays :
         /\ d * SECONDS_PER_DAY > pocm_now
         /\ \A e \in PocmClockDays : e * SECONDS_PER_DAY > pocm_now => d <= e
         /\ pocm_now' = d * SECONDS_PER_DAY
    /\ pocm_last' = PocmNoOp
    /\ UNCHANGED <<pocm_cfg, pocm_profiles, pocm_positions, pocm_stakes,
                   pocm_vault_xnt, pocm_minted, pocm_ops>>

CreatePosition(caller, duration_days, position_index) ==
    LET pid == <<caller, position_index>>
        r == create_position(pocm_profiles[caller], caller, duration_days,
                             position_index)
    IN  /\ PocmCount
        /\ r.err = "Ok"
        /\ pocm_profiles' = [pocm_profiles EXCEPT ![caller] = r.prof]
        /\ pocm_positions' = [pocm_positions EXCEPT ![pid] = r.pos]
        /\ pocm_last' = [PocmNoOp EXCEPT !.op = "create_position",
                                         !.caller = caller]
        /\ UNCHANGED <<pocm_now, pocm_cfg, pocm_stakes, pocm_vault_xnt,
                       pocm_minted>>

\* Deposit.config is not `mut`: the Config the handler changed (r.cfg) is
\* not written back
Deposit(caller, pid, amount) ==
    LET r == deposit(pocm_cfg, pocm_profiles[caller], pocm_positions[pid],
                     caller, amount, pocm_now)
    IN  /\ PocmCount
        /\ r.err = "Ok"
        /\ pocm_profiles' = [pocm_profiles EXCEPT ![caller] = r.prof]
        /\ pocm_positions' = [pocm_positions EXCEPT ![pid] = r.pos]
        /\ pocm_vault_xnt' = pocm_vault_xnt + r.share
        /\ pocm_last' = [PocmNoOp EXCEPT !.op = "deposit", !.caller = caller,
                                         !.amount = amount, !.share = r.share]
        /\ UNCHANGED <<pocm_now, pocm_cfg, pocm_stakes, pocm_minted>>

Claim(caller, list, amount) ==
    LET r == claim(pocm_cfg, pocm_positions, caller, list, amount, pocm_now)
        own == OwnListed(list, caller)
    IN  /\ PocmCount
        /\ r.err = "Ok"
        /\ pocm_cfg' = r.cfg
        /\ pocm_positions' = r.accts
        /\ pocm_minted' = pocm_minted + r.minted
        /\ pocm_last' = [PocmNoOp EXCEPT
                            !.op = "claim", !.caller = caller, !.list = list,
                            !.amount = amount, !.minted = r.minted,
                            !.claimable = ClaimableOver(own, caller),
                            !.owed = OwedOver(own)]
        /\ UNCHANGED <<pocm_now, pocm_profiles, pocm_stakes, pocm_vault_xnt>>

Withdraw(caller, pid) ==
    LET r == withdraw(pocm_positions[pid], caller, pocm_now)
    IN  /\ PocmCount
        /\ r.err = "Ok"
        /\ pocm_positions' = [pocm_positions EXCEPT ![pid] = r.pos]
        /\ pocm_last' = [PocmNoOp EXCEPT !.op = "withdraw", !.caller = caller]
        /\ UNCHANGED <<pocm_now, pocm_cfg, pocm_profiles, pocm_stakes,
                       pocm_vault_xnt, pocm_minted>>

CreateStake(caller, duration_days, position_index, amount) ==
    LET sid == <<caller, position_index>>
        r == create_stake(pocm_cfg, pocm_profiles[caller], caller, duration_days,
                          position_index, amount, pocm_now)
    IN  /\ PocmCount
        /\ r.err = "Ok"
        /\ pocm_cfg' = r.cfg
        /\ pocm_profiles' = [pocm_profiles EXCEPT ![caller] = r.prof]
        /\ pocm_stakes' = [pocm_stakes EXCEPT ![sid] = r.stake]
        /\ pocm_last' = [PocmNoOp EXCEPT !.op = "create_stake",
                                         !.caller = caller, !.sid = sid,
                                         !.amount = amount,
                                         !.weight = r.cfg.total_staked_mind
                                                      - pocm_cfg.total_staked_mind]
        /\ UNCHANGED <<pocm_now, pocm_positions, pocm_vault_xnt, pocm_minted>>

ClaimStakeReward(caller, stake_index, amount) ==
    LET sid == <<caller, stake_index>>
        r == claim_stake_reward(pocm_cfg, pocm_stakes[sid], caller, amount,
                                pocm_vault_xnt, pocm_now)
    IN  /\ PocmCount
        /\ r.err = "Ok"
        /\ pocm_cfg' = r.cfg
        /\ pocm_stakes' = [pocm_stakes EXCEPT ![sid] = r.stake]
        /\ pocm_vault_xnt' = pocm_vault_xnt - amount
        /\ pocm_last' = [PocmNoOp EXCEPT !.op = "claim_stake_reward",
                                         !.caller = caller, !.sid = sid,
                                         !.amount = amount,
                                         !.stake_claimable = r.claimable]
        /\ UNCHANGED <<pocm_now, pocm_profiles, pocm_positions, pocm_minted>>

WithdrawStake(caller, stake_index) ==
    LET sid == <<caller, stake_index>>
        r == withdraw_stake(pocm_cfg, pocm_stakes[sid], caller, pocm_now)
    IN  /\ PocmCount
        /\ r.err = "Ok"
        /\ pocm_cfg' = r.cfg
        /\ pocm_stakes' = [pocm_stakes EXCEPT ![sid] = r.stake]
        /\ pocm_last' = [PocmNoOp EXCEPT !.op = "withdraw_stake",
                                         !.caller = caller, !.sid = sid,
                                         !.weight = pocm_cfg.total_staked_mind
                                                      - r.cfg.total_staked_mind]
        /\ UNCHANGED <<pocm_now, pocm_profiles, pocm_positions, pocm_vault_xnt,
                       pocm_minted>>

\* AdminFundStakingXnt.config is not `mut`: the Config the handler changed
\* (r.cfg) is not written back
AdminFundStakingXnt(amount) ==
    LET r == admin_fund_staking_xnt(pocm_cfg, amount)
    IN  /\ PocmCount
        /\ r.err = "Ok"
        /\ pocm_vault_xnt' = pocm_vault_xnt + r.share
        /\ pocm_last' = [PocmNoOp EXCEPT !.op = "admin_fund_staking_xnt",
                                         !.amount = amount, !.share = r.share]
        /\ UNCHANGED <<pocm_now, pocm_cfg, pocm_profiles, pocm_positions,
                       pocm_stakes, pocm_minted>>

-----------------------------------------------------------------------------
(* melt_v1.  Lamports, token amounts and timestamps are kept in words of   *)
(* WordBits bits so that the checked arithmetic of the program can fail.   *)

\* width of the words that stand for u64 and i64
WordBits == 8
U64Max == 2 ^ WordBits - 1
I64Max == 2 ^ (WordBits - 1) - 1
\* `x as i64` of a u64 x
as_i64(x) == IF x > I64Max THEN x - 2 ^ WordBits ELSE x

\* latest timestamp of the melt_v1 clock
MeltMaxNow == 6
\* round accounts, by seq: the PDAs [ROUND_SEED, seq]
MaxRounds == 2
RoundSeqs == 0..(MaxRounds - 1)
\* instructions of melt_v1 executed in one behaviour
MeltMaxOps == 6
\* InitMeltParams.vault_cap_xnt
VaultCap == 10
\* InitMeltParams.rollover_bps
RolloverBps == 2500
\* InitMeltParams.round_window_sec
RoundWindow == 2
MeltAdmin == "admin"
Signers == {MeltAdmin, "alice", "bob"}
BurnAmounts == {1, 3}
\* a top-up that does not fill the vial, and a cap it does fill
SmallTopup == 4
TopupAmounts == {SmallTopup, VaultCap}

\* the MeltConfig account after init_melt; size is the length of its data
\* ("current": MeltConfig::INIT_SPACE, "legacy": MeltConfigLegacyV1::INIT_SPACE)
InitMeltConfig ==
    [size |-> "current", admin |-> MeltAdmin, mind_mint |-> "mind_mint",
     vault |-> "melt_vault", vault_cap_lamports |-> VaultCap,
     rollover_bps |-> RolloverBps, burn_min |-> 0,
     round_window_sec |-> RoundWindow, test_mode |-> TRUE, round_seq |-> 0,
     vial_lamports |-> 0, bonus_pool_lamports |-> 0, active_round_seq |-> 0,
     active_round_active |-> FALSE, pending_window_sec |-> 0,
     bump_config |-> 254, bump_vault |-> 253]

\* a MeltRound account as init_if_needed creates it (RoundStatus::Planned
\* is the variant 0)
NoRound ==
    [seq |-> 0, start_ts |-> 0, end_ts |-> 0, v_round |-> 0, v_pay |-> 0,
     total_burn |-> 0, status |-> "Planned"]

\* a MeltUserRound account that does not exist yet
NoUserRound == [exists |-> FALSE, burned |-> 0, claimed |-> FALSE]

MeltFail(e, c, round) ==
    [err |-> e, cfg |-> c, round |-> round, started |-> FALSE]

\* try_start_round that leaves the bonus pool as it is
try_start_round_keeps_bonus(c, round, strict, now_ts) ==
    LET duration == IF c.pending_window_sec > 0 THEN c.pending_window_sec
                    ELSE c.round_window_sec
        pot == c.vault_cap_lamports + c.bonus_pool_lamports
        pay_bps == 10000 - c.rollover_bps
        v_pay == (pot * pay_bps) \div 10000
        seq == c.round_seq
        end_ts == now_ts + as_i64(duration)
    IN  IF c.active_round_active
        THEN MeltFail(IF strict THEN "RoundAlreadyActive" ELSE "Ok", c, round)
        ELSE IF c.vial_lamports < c.vault_cap_lamports
        THEN MeltFail(IF strict THEN "VialNotFull" ELSE "Ok", c, round)
        ELSE IF pot > U64Max THEN MeltFail("MathOverflow", c, round)
        ELSE IF end_ts > I64Max \/ end_ts < -(I64Max + 1)
             THEN MeltFail("MathOverflow", c, round)
        ELSE IF c.round_seq + 1 > U64Max THEN MeltFail("MathOverflow", c, round)
        ELSE [err |-> "Ok",
              cfg |-> [c EXCEPT
                          !.vial_lamports = @ - c.vault_cap_lamports,
                          !.active_round_seq = seq,
                          !.active_round_active = TRUE,
                          !.round_seq = @ + 1,
                          !.pending_window_sec = 0],
              round |-> [seq |-> seq, start_ts |-> now_ts, end_ts |-> end_ts,
                         v_round |-> pot, v_pay |-> v_pay, total_burn |-> 0,
                         status |-> "Active"],
              started |-> TRUE]

\* try_start_round without the check of active_round_active
try_start_round_while_active(c, round, strict, now_ts) ==
    LET duration == IF c.pending_window_sec > 0 THEN c.pending_window_sec
                    ELSE c.round_window_sec
        pot == c.vault_cap_lamports + c.bonus_pool_lamports
        pay_bps == 10000 - c.rollover_bps
        v_pay == (pot * pay_bps) \div 10000
        seq == c.round_seq
        end_ts == now_ts + as_i64(duration)
    IN  IF c.vial_lamports < c.vault_cap_lamports
        THEN MeltFail(IF strict THEN "VialNotFull" ELSE "Ok", c, round)
        ELSE IF pot > U64Max THEN MeltFail("MathOverflow", c, round)
        ELSE IF end_ts > I64Max \/ end_ts < -(I64Max + 1)
             THEN MeltFail("MathOverflow", c, round)
        ELSE IF c.round_seq + 1 > U64Max THEN MeltFail("MathOverflow", c, round)
        ELSE [err |-> "Ok",
              cfg |-> [c EXCEPT
                          !.vial_lamports = @ - c.vault_cap_lamports,
                          !.bonus_pool_lamports = 0,
                          !.active_round_seq = seq,
                          !.active_round_active = TRUE,
                          !.round_seq = @ + 1,
                          !.pending_window_sec = 0],
              round |-> [seq |-> seq, start_ts |-> now_ts, end_ts |-> end_ts,
                         v_round |-> pot, v_pay |-> v_pay, total_burn |-> 0,
                         status |-> "Active"],
              started |-> TRUE]

try_start_round(c, round, strict, now_ts) ==
    LET duration == IF c.pending_window_sec > 0 THEN c.pending_window_sec
                    ELSE c.round_window_sec
        pot == c.vault_cap_lamports + c.bonus_pool_lamports
        pay_bps == 10000 - c.rollover_bps
        v_pay == (pot * pay_bps) \div 10000
        seq == c.round_seq
        end_ts == now_ts + as_i64(duration)
    IN  IF c.active_round_active
        THEN MeltFail(IF strict THEN "RoundAlreadyActive" ELSE "Ok", c, round)
        ELSE IF c.vial_lamports < c.vault_cap_lamports
        THEN MeltFail(IF strict THEN "VialNotFull" ELSE "Ok", c, round)
        ELSE IF pot > U64Max THEN MeltFail("MathOverflow", c, round)
        ELSE IF end_ts > I64Max \/ end_ts < -(I64Max + 1)
             THEN MeltFail("MathOverflow", c, round)
        ELSE IF c.round_seq + 1 > U64Max THEN MeltFail("MathOverflow", c, round)
        ELSE [err |-> "Ok",
              cfg |-> [c EXCEPT
                          !.vial_lamports = @ - c.vault_cap_lamports,
                          !.bonus_pool_lamports = 0,
                          !.active_round_seq = seq,
                          !.active_round_active = TRUE,
                          !.round_seq = @ + 1,
                          !.pending_window_sec = 0],
              round |-> [seq |-> seq, start_ts |-> now_ts, end_ts |-> end_ts,
                         v_round |-> pot, v_pay |-> v_pay, total_burn |-> 0,
                         status |-> "Active"],
              started |-> TRUE]

\* finalize_active_round_if_ended without the check of end_ts
finalize_active_round_if_ended_early(c, round, now_ts) ==
    LET rollover == round.v_round - round.v_pay
        fail(e) == [err |-> e, cfg |-> c, round |-> round, rollover |-> 0]
    IN  IF round.status # "Active" THEN fail("BadRoundStatus")
        ELSE IF ~c.active_round_active THEN fail("BadRoundStatus")
        ELSE IF round.seq # c.active_round_seq THEN fail("InvalidParams")
        ELSE IF rollover < 0 THEN fail("MathOverflow")
        ELSE IF c.bonus_pool_lamports + rollover > U64Max
             THEN fail("MathOverflow")
        ELSE [err |-> "Ok",
              cfg |-> [c EXCEPT !.bonus_pool_lamports = @ + rollover,
                                !.active_round_active = FALSE],
              round |-> [round EXCEPT !.status = "Finalized"],
              rollover |-> rollover]

finalize_active_round_if_ended(c, round, now_ts) ==
    LET rollover == round.v_round - round.v_pay
        fail(e) == [err |-> e, cfg |-> c, round |-> round, rollover |-> 0]
    IN  IF round.status # "Active" THEN fail("BadRoundStatus")
        ELSE IF ~c.active_round_active THEN fail("BadRoundStatus")
        ELSE IF round.seq # c.active_round_seq THEN fail("InvalidParams")
        ELSE IF ~(now_ts > round.end_ts) THEN fail("RoundNotEnded")
        ELSE IF rollover < 0 THEN fail("MathOverflow")
        ELSE IF c.bonus_pool_lamports + rollover > U64Max
             THEN fail("MathOverflow")
        ELSE [err |-> "Ok",
              cfg |-> [c EXCEPT !.bonus_pool_lamports = @ + rollover,
                                !.active_round_active = FALSE],
              round |-> [round EXCEPT !.status = "Finalized"],
              rollover |-> rollover]

\* admin_topup_vial and admin_topup_vault (the same body): funds_ok says
\* that the admin holds the lamports of the transfer
admin_topup_vial(c, round, signer, lamports, funds_ok, now_ts) ==
    LET c1 == [c EXCEPT !.vial_lamports = @ + lamports]
    IN  IF ~(lamports > 0) THEN MeltFail("InvalidParams", c, round)
        ELSE IF c.admin # signer THEN MeltFail("Unauthorized", c, round)
        ELSE IF ~funds_ok THEN MeltFail("InsufficientFunds", c, round)
        ELSE IF c1.vial_lamports > U64Max THEN MeltFail("MathOverflow", c, round)
        ELSE try_start_round(c1, round, FALSE, now_ts)

\* record_funding that only adds to the vial
record_funding_only(c, round, lamports, now_ts) ==
    LET c1 == [c EXCEPT !.vial_lamports = @ + lamports]
    IN  IF ~(lamports > 0) THEN MeltFail("InvalidParams", c, round)
        ELSE IF c1.vial_lamports > U64Max THEN MeltFail("MathOverflow", c, round)
        ELSE MeltFail("Ok", c1, round)

record_funding(c, round, lamports, now_ts) ==
    LET c1 == [c EXCEPT !.vial_lamports = @ + lamports]
    IN  IF ~(lamports > 0) THEN MeltFail("InvalidParams", c, round)
        ELSE IF c1.vial_lamports > U64Max THEN MeltFail("MathOverflow", c, round)
        ELSE try_start_round(c1, round, FALSE, now_ts)

start_round(c, round, signer, now_ts) ==
    IF c.admin # signer THEN MeltFail("Unauthorized", c, round)
    ELSE IF ~c.test_mode THEN MeltFail("InvalidParams", c, round)
    ELSE try_start_round(c, round, TRUE, now_ts)

\* burn_mind without the check of the window of the round
burn_mind_any_time(c, round, ur, amount, funds_ok, now_ts) ==
    LET fail(e) == [err |-> e, round |-> round, ur |-> ur]
    IN  IF ~(amount > 0) THEN fail("InvalidParams")
        ELSE IF round.status # "Active" THEN fail("BadRoundStatus")
        ELSE IF c.burn_min > 0 /\ ~(amount >= c.burn_min)
             THEN fail("BelowBurnMin")
        ELSE IF ~funds_ok THEN fail("InsufficientFunds")
        ELSE IF ur.burned + amount > U64Max THEN fail("MathOverflow")
        ELSE IF round.total_burn + amount > U64Max THEN fail("MathOverflow")
        ELSE [err |-> "Ok",
              round |-> [round EXCEPT !.total_burn = @ + amount],
              ur |-> [exists |-> TRUE, burned |-> ur.burned + amount,
                      claimed |-> FALSE]]

\* funds_ok says that the token account of the user holds `amount`
burn_mind(c, round, ur, amount, funds_ok, now_ts) ==
    LET fail(e) == [err |-> e, round |-> round, ur |-> ur]
    IN  IF ~(amount > 0) THEN fail("InvalidParams")
        ELSE IF round.status # "Active" THEN fail("BadRoundStatus")
        ELSE IF ~(now_ts >= round.start_ts /\ now_ts <= round.end_ts)
             THEN fail("RoundNotActive")
        ELSE IF c.burn_min > 0 /\ ~(amount >= c.burn_min)
             THEN fail("BelowBurnMin")
        ELSE IF ~funds_ok THEN fail("InsufficientFunds")
        ELSE IF ur.burned + amount > U64Max THEN fail("MathOverflow")
        ELSE IF round.total_burn + amount > U64Max THEN fail("MathOverflow")
        ELSE [err |-> "Ok",
              round |-> [round EXCEPT !.total_burn = @ + amount],
              ur |-> [exists |-> TRUE, burned |-> ur.burned + amount,
                      claimed |-> FALSE]]

finalize_round(c, round, next_round, now_ts) ==
    LET f == finalize_active_round_if_ended(c, round, now_ts)
        s == try_start_round(f.cfg, next_round, FALSE, now_ts)
    IN  IF f.err # "Ok"
        THEN [err |-> f.err, cfg |-> c, round |-> round,
              next_round |-> next_round, started |-> FALSE]
        ELSE IF s.err # "Ok"
        THEN [err |-> s.err, cfg |-> c, round |-> round,
              next_round |-> next_round, started |-> FALSE]
        ELSE [err |-> "Ok", cfg |-> s.cfg, round |-> f.round,
              next_round |-> s.round, started |-> s.started]

\* claim without the check of user_round.claimed
melt_claim_repeatable(c, round, next_round, ur, vault_balance, now_ts) ==
    LET fail(e) == [err |-> e, cfg |-> c, round |-> round,
                    next_round |-> next_round, ur |-> ur, payout |-> 0,
                    finalized |-> FALSE, started |-> FALSE]
        f == IF round.status = "Active"
             THEN finalize_active_round_if_ended(c, round, now_ts)
             ELSE [err |-> "Ok", cfg |-> c, round |-> round, rollover |-> 0]
        s == try_start_round(f.cfg, next_round, FALSE, now_ts)
        payout == (f.round.v_pay * ur.burned) \div f.round.total_burn
        done(p) == [err |-> "Ok", cfg |-> s.cfg, round |-> f.round,
                    next_round |-> s.round,
                    ur |-> [ur EXCEPT !.claimed = TRUE], payout |-> p,
                    finalized |-> round.status = "Active",
                    started |-> s.started]
    IN  IF ~ur.exists THEN fail("AccountNotInitialized")
        ELSE IF f.err # "Ok" THEN fail(f.err)
        ELSE IF s.err # "Ok" THEN fail(s.err)
        ELSE IF f.round.status # "Finalized" THEN fail("BadRoundStatus")
        ELSE IF ~(ur.burned > 0) THEN fail("NothingToClaim")
        ELSE IF f.round.total_burn = 0 \/ f.round.v_pay = 0 THEN done(0)
        ELSE IF payout > U64Max THEN fail("MathOverflow")
        ELSE IF ~(vault_balance >= payout)
             THEN fail("InsufficientVaultBalance")
        ELSE done(payout)

\* vault_balance: the lamports of the vault account
melt_claim(c, round, next_round, ur, vault_balance, now_ts) ==
    LET fail(e) == [err |-> e, cfg |-> c, round |-> round,
                    next_round |-> next_round, ur |-> ur, payout |-> 0,
                    finalized |-> FALSE, started |-> FALSE]
        f == IF round.status = "Active"
             THEN finalize_active_round_if_ended(c, round, now_ts)
             ELSE [err |-> "Ok", cfg |-> c, round |-> round, rollover |-> 0]
        s == try_start_round(f.cfg, next_round, FALSE, now_ts)
        payout == (f.round.v_pay * ur.burned) \div f.round.total_burn
        done(p) == [err |-> "Ok", cfg |-> s.cfg, round |-> f.round,
                    next_round |-> s.round,
                    ur |-> [ur EXCEPT !.claimed = TRUE], payout |-> p,
                    finalized |-> round.status = "Active",
                    started |-> s.started]
    IN  IF ~ur.exists THEN fail("AccountNotInitialized")
        ELSE IF f.err # "Ok" THEN fail(f.err)
        ELSE IF s.err # "Ok" THEN fail(s.err)
        ELSE IF f.round.status # "Finalized" THEN fail("BadRoundStatus")
        ELSE IF ur.claimed THEN fail("AlreadyClaimed")
        ELSE IF ~(ur.burned > 0) THEN fail("NothingToClaim")
        ELSE IF f.round.total_burn = 0 \/ f.round.v_pay = 0 THEN done(0)
        ELSE IF payout > U64Max THEN fail("MathOverflow")
        ELSE IF ~(vault_balance >= payout)
             THEN fail("InsufficientVaultBalance")
        ELSE done(payout)

\* admin_topup_vault has the body of admin_topup_vial
admin_topup_vault(c, round, signer, lamports, funds_ok, now_ts) ==
    admin_topup_vial(c, round, signer, lamports, funds_ok, now_ts)

\* an Option of AdminSetParamsParams is <<>> (None) or <<v>> (Some(v))
admin_set_params(c, signer, vault_cap_xnt, rollover_bps, burn_min, round_window_sec) ==
    LET fail(e) == [err |-> e, cfg |-> c]
        set(old, opt) == IF opt = <<>> THEN old ELSE opt[1]
    IN  IF c.admin # signer THEN fail("Unauthorized")
        ELSE IF vault_cap_xnt # <<>> /\ ~(vault_cap_xnt[1] > 0)
             THEN fail("InvalidParams")
        ELSE IF rollover_bps # <<>> /\ ~(rollover_bps[1] <= 10000)
             THEN fail("InvalidParams")
        ELSE IF round_window_sec # <<>> /\ ~(round_window_sec[1] > 0)
             THEN fail("InvalidParams")
        ELSE [err |-> "Ok",
              cfg |-> [c EXCEPT
                          !.vault_cap_lamports = set(@, vault_cap_xnt),
                          !.rollover_bps = set(@, rollover_bps),
                          !.burn_min = set(@, burn_min),
                          !.round_window_sec = set(@, round_window_sec)]]

admin_set_schedule(c, signer, start_ts, end_ts, now_ts) ==
    LET fail(e) == [err |-> e, cfg |-> c]
        duration == end_ts - start_ts
    IN  IF c.admin # signer THEN fail("Unauthorized")
        ELSE IF ~(end_ts > start_ts) THEN fail("InvalidParams")
        ELSE IF ~(end_ts > now_ts) THEN fail("InvalidParams")
        ELSE IF ~c.test_mode THEN fail("InvalidParams")
        ELSE IF duration > I64Max THEN fail("MathOverflow")
        ELSE [err |-> "Ok", cfg |-> [c EXCEPT !.pending_window_sec = duration]]

admin_withdraw_vault(c, signer, lamports, vault_balance) ==
    LET fail(e) == [err |-> e, cfg |-> c, paid |-> 0]
    IN  IF ~(lamports > 0) THEN fail("InvalidParams")
        ELSE IF c.admin # signer THEN fail("Unauthorized")
        ELSE IF ~c.test_mode THEN fail("WithdrawDisabled")
        ELSE IF ~(c.vial_lamports >= lamports)
             THEN fail("InsufficientVaultBalance")
        ELSE IF vault_balance - lamports < 0 THEN fail("MathOverflow")
        ELSE [err |-> "Ok", cfg |-> [c EXCEPT !.vial_lamports = @ - lamports],
              paid |-> lamports]

\* the fields of MeltConfig and of MeltConfigLegacyV1, in the order of
\* their serialization
LegacyFields ==
    {"admin", "mind_mint", "vault", "vault_cap_lamports", "rollover_bps",
     "burn_min", "round_window_sec", "test_mode", "round_seq",
     "bump_config", "bump_vault"}
CurrentFields ==
    LegacyFields \cup {"vial_lamports", "bonus_pool_lamports",
                       "active_round_seq", "active_round_active",
                       "pending_window_sec"}

\* MeltConfig::try_from_slice and MeltConfigLegacyV1::try_from_slice of the
\* payload of an account of the matching length
try_from_slice(acct, fields) == [f \in fields |-> acct[f]]

\* the account data written back: the discriminator and new_cfg.try_to_vec()
try_to_vec(new_cfg) ==
    [f \in CurrentFields \cup {"size"} |->
        IF f = "size" THEN "current" ELSE new_cfg[f]]

\* upgraded_config that takes the round of the legacy record for running
upgraded_config_active(old) ==
    [f \in CurrentFields |->
        CASE f \in LegacyFields -> old[f]
          [] f = "active_round_active" -> TRUE
          [] OTHER -> 0]

\* the MeltConfig built from a legacy record
upgraded_config(old) ==
    [f \in CurrentFields |->
        CASE f \in LegacyFields -> old[f]
          [] f = "active_round_active" -> FALSE
          [] OTHER -> 0]

\* rent_ok says that the account holds the rent of the new length
migrate_melt_config_account(acct, signer, rent_ok) ==
    LET new_cfg == IF acct.size = "current"
                   THEN try_from_slice(acct, CurrentFields)
                   ELSE upgraded_config(try_from_slice(acct, LegacyFields))
        fail(e) == [err |-> e, acct |-> acct]
    IN  IF acct.size \notin {"current", "legacy"} THEN fail("InvalidParams")
        ELSE IF new_cfg.admin # signer THEN fail("Unauthorized")
        ELSE IF acct.size = "legacy" /\ ~rent_ok
             THEN fail("InsufficientVaultBalance")
        ELSE [err |-> "Ok", acct |-> try_to_vec(new_cfg)]

VARIABLES
    melt_now,          \* Clock::get().unix_timestamp seen by melt_v1
    melt_config,       \* melt_v1 MeltConfig account
    melt_rounds,       \* MeltRound accounts, by seq
    melt_user_rounds,  \* MeltUserRound accounts, by (user, seq of the round)
    melt_vault,        \* lamports of the vault account above its rent
    melt_payouts,      \* history: per (user, seq), the payouts of its claims
    melt_last,         \* history: what the instruction of the latest step did
    melt_ops           \* history: number of instructions executed

meltVars == <<melt_now, melt_config, melt_rounds, melt_user_rounds,
              melt_vault, melt_payouts, melt_last, melt_ops>>

UserRoundIds == Owners \X RoundSeqs

MeltNoOp ==
    [op |-> "", user |-> "", seq |-> 0, amount |-> 0, payout |-> 0,
     started |-> FALSE, finalized |-> FALSE]

\* the accounts of melt_v1 with the config account `acct`
MeltInitWith(acct) ==
    /\ melt_now = 0
    /\ melt_config = acct
    /\ melt_rounds = [s \in RoundSeqs |-> NoRound]
    /\ melt_user_rounds = [u \in UserRoundIds |-> NoUserRound]
    /\ melt_vault = 0
    /\ melt_payouts = [u \in UserRoundIds |-> <<>>]
    /\ melt_last = MeltNoOp
    /\ melt_ops = 0

\* the accounts after init_melt
MeltInit == MeltInitWith(InitMeltConfig)

MeltCount == melt_ops < MeltMaxOps /\ melt_ops' = melt_ops + 1

\* the account at the PDA [ROUND_SEED, config.round_seq]
NextRound ==
    IF melt_config.round_seq \in RoundSeqs
    THEN melt_rounds[melt_config.round_seq] ELSE NoRound

\* Account<MeltConfig> of the instruction deserializes, and a round is
\* started only in one of the round accounts of the model
MeltLoaded(started) ==
    /\ melt_config.size = "current"
    /\ started => melt_config.round_seq \in RoundSeqs

MeltTick ==
    /\ melt_now < MeltMaxNow
    /\ melt_now' = melt_now + 1
    /\ melt_last' = MeltNoOp
    /\ UNCHANGED <<melt_config, melt_rounds, melt_user_rounds, melt_vault,
                   melt_payouts, melt_ops>>

\* the writes of an instruction that may have started the round
\* config.round_seq
Started(op, r, lamports) ==
    /\ r.err = "Ok"
    /\ MeltLoaded(r.started)
    /\ melt_config' = r.cfg
    /\ melt_rounds' = IF r.started
                      THEN [melt_rounds EXCEPT ![melt_config.round_seq] = r.round]
                      ELSE melt_rounds
    /\ melt_last' = [MeltNoOp EXCEPT !.op = op, !.seq = melt_config.round_seq,
                                     !.amount = lamports,
                                     !.started = r.started]

AdminTopupVial(signer, lamports) ==
    /\ MeltCount
    /\ \E r \in {admin_topup_vial(melt_config, NextRound, signer, lamports,
                                  TRUE, melt_now)} :
         /\ Started("admin_topup_vial", r, lamports)
         /\ melt_vault' = melt_vault + lamports
    /\ UNCHANGED <<melt_now, melt_user_rounds, melt_payouts>>

RecordFunding(lamports) ==
    /\ MeltCount
    /\ \E r \in {record_funding(melt_config, NextRound, lamports, melt_now)} :
         Started("record_funding", r, lamports)
    /\ UNCHANGED <<melt_now, melt_user_rounds, melt_vault, melt_payouts>>

StartRound(signer) ==
    /\ MeltCount
    /\ \E r \in {start_round(melt_config, NextRound, signer, melt_now)} :
         Started("start_round", r, 0)
    /\ UNCHANGED <<melt_now, melt_user_rounds, melt_vault, melt_payouts>>

BurnMind(user, seq, amount) ==
    /\ MeltCount
    /\ melt_config.size = "current"
    /\ \E r \in {burn_mind(melt_config, melt_rounds[seq],
                           melt_user_rounds[<<user, seq>>], amount, TRUE,
                           melt_now)} :
         /\ r.err = "Ok"
         /\ melt_rounds' = [melt_rounds EXCEPT ![seq] = r.round]
         /\ melt_user_rounds' = [melt_user_rounds EXCEPT ![<<user, seq>>] = r.ur]
    /\ melt_last' = [MeltNoOp EXCEPT !.op = "burn_mind", !.user = user,
                                     !.seq = seq, !.amount = amount]
    /\ UNCHANGED <<melt_now, melt_config, melt_vault, melt_payouts>>

\* the round accounts after an instruction that took round `seq` and the
\* account of the next round
RoundsAfter(seq, r) ==
    LET finalized == [melt_rounds EXCEPT ![seq] = r.round]
    IN  IF r.started
        THEN [finalized EXCEPT ![melt_config.round_seq] = r.next_round]
        ELSE finalized

FinalizeRound(seq) ==
    /\ MeltCount
    /\ seq # melt_config.round_seq
    /\ \E r \in {finalize_round(melt_config, melt_rounds[seq], NextRound,
                                melt_now)} :
         /\ r.err = "Ok"
         /\ MeltLoaded(r.started)
         /\ melt_config' = r.cfg
         /\ melt_rounds' = RoundsAfter(seq, r)
         /\ melt_last' = [MeltNoOp EXCEPT !.op = "finalize_round", !.seq = seq,
                                          !.started = r.started,
                                          !.finalized = TRUE]
    /\ UNCHANGED <<melt_now, melt_user_rounds, melt_vault, melt_payouts>>

MeltClaim(user, seq) ==
    /\ MeltCount
    /\ seq # melt_config.round_seq
    /\ \E r \in {melt_claim(melt_config, melt_rounds[seq], NextRound,
                            melt_user_rounds[<<user, seq>>], melt_vault,
                            melt_now)} :
         /\ r.err = "Ok"
         /\ MeltLoaded(r.started)
         /\ melt_config' = r.cfg
         /\ melt_rounds' = RoundsAfter(seq, r)
         /\ melt_user_rounds' = [melt_user_rounds EXCEPT ![<<user, seq>>] = r.ur]
         /\ melt_vault' = melt_vault - r.payout
         /\ melt_payouts' = [melt_payouts EXCEPT
                                ![<<user, seq>>] = Append(@, r.payout)]
         /\ melt_last' = [MeltNoOp EXCEPT !.op = "claim", !.user = user,
                                          !.seq = seq, !.payout = r.payout,
                                          !.started = r.started,
                                          !.finalized = r.finalized]
    /\ UNCHANGED melt_now

AdminTopupVault(signer, lamports) ==
    /\ MeltCount
    /\ \E r \in {admin_topup_vault(melt_config, NextRound, signer, lamports,
                                   TRUE, melt_now)} :
         /\ Started("admin_topup_vault", r, lamports)
         /\ melt_vault' = melt_vault + lamports
    /\ UNCHANGED <<melt_now, melt_user_rounds, melt_payouts>>

\* the writes of an admin instruction that takes only the config
ConfigWritten(op, r, amount) ==
    /\ melt_config.size = "current"
    /\ r.err = "Ok"
    /\ melt_config' = r.cfg
    /\ melt_last' = [MeltNoOp EXCEPT !.op = op, !.amount = amount]
    /\ UNCHANGED <<melt_now, melt_rounds, melt_user_rounds, melt_payouts>>

AdminSetParams(signer, vault_cap_xnt, rollover_bps, burn_min, round_window_sec) ==
    /\ MeltCount
    /\ ConfigWritten("admin_set_params",
                     admin_set_params(melt_config, signer, vault_cap_xnt,
                                      rollover_bps, burn_min, round_window_sec),
                     0)
    /\ UNCHANGED melt_vault

AdminSetSchedule(signer, start_ts, end_ts) ==
    /\ MeltCount
    /\ ConfigWritten("admin_set_schedule",
                     admin_set_schedule(melt_config, signer, start_ts, end_ts,
                                        melt_now),
                     end_ts - start_ts)
    /\ UNCHANGED melt_vault

AdminWithdrawVault(signer, lamports) ==
    /\ MeltCount
    /\ ConfigWritten("admin_withdraw_vault",
                     admin_withdraw_vault(melt_config, signer, lamports,
                                          melt_vault),
                     lamports)
    /\ melt_vault' = melt_vault - lamports

AdminMigrateConfig(signer, rent_ok) ==
    /\ MeltCount
    /\ \E r \in {migrate_melt_config_account(melt_config, signer, rent_ok)} :
         /\ r.err = "Ok"
         /\ melt_config' = r.acct
    /\ melt_last' = [MeltNoOp EXCEPT !.op = "admin_migrate_config",
                                     !.user = signer]
    /\ UNCHANGED <<melt_now, melt_rounds, melt_user_rounds, melt_vault,
                   melt_payouts>>

-----------------------------------------------------------------------------
(* Specifications.  The programs share no account: each specification      *)
(* runs one of them and leaves the accounts of the other as initialized.   *)

vars == <<miningVars, stakingVars, pocmVars, meltVars>>

Init == MiningInit /\ PocmInit /\ MeltInit

Next ==
    \/ Tick /\ UNCHANGED <<hp_scale_config, stakingVars, pocmVars, meltVars>>
    \/ \E caller \in Owners, ct \in ContractTypes, i \in 0..(MaxIndex - 1) :
         BuyContract(caller, ct, i) /\ UNCHANGED <<hp_scale_config, stakingVars, pocmVars, meltVars>>
    \/ \E caller \in Owners, pid \in PosIds :
         RenewRig(caller, pid) /\ UNCHANGED <<hp_scale_config, stakingVars, pocmVars, meltVars>>
    \/ \E caller \in Owners, pid \in PosIds :
         RenewRigWithBuff(caller, pid) /\ UNCHANGED <<hp_scale_config, stakingVars, pocmVars, meltVars>>
    \/ \E caller \in Owners, pid \in PosIds :
         ClaimMind(caller, pid) /\ UNCHANGED <<hp_scale_config, stakingVars, pocmVars, meltVars>>
    \/ \E caller \in Owners, pid \in PosIds :
         DeactivatePosition(caller, pid) /\ UNCHANGED <<hp_scale_config, stakingVars, pocmVars, meltVars>>
    \/ \E caller \in Owners : LevelUp(caller) /\ UNCHANGED <<hp_scale_config, stakingVars, pocmVars, meltVars>>

Spec == Init /\ [][Next]_vars

\* mining_v2 with its admin instructions
NextAdmin ==
    \/ Tick /\ UNCHANGED <<hp_scale_config, stakingVars, pocmVars, meltVars>>
    \/ \E caller \in Owners, ct \in ContractTypes, i \in 0..(MaxIndex - 1) :
         BuyContract(caller, ct, i) /\ UNCHANGED <<hp_scale_config, stakingVars, pocmVars, meltVars>>
    \/ \E caller \in Owners, pid \in PosIds :
         ClaimMind(caller, pid) /\ UNCHANGED <<hp_scale_config, stakingVars, pocmVars, meltVars>>
    \/ \E n \in NetworkHpValues :
         AdminSetNetworkHpActive(n) /\ UNCHANGED <<stakingVars, pocmVars, meltVars>>
    \/ AdminEnableHpScaling /\ UNCHANGED <<stakingVars, pocmVars, meltVars>>

SpecAdmin == Init /\ [][NextAdmin]_vars

\* clock values and Config fields the two update functions are applied to
GlobalTimes == {d * WallDay : d \in ClockDays}

StakingRewardRate == 1

StakedMindTotal == 100

InitGlobal ==
    /\ PocmInit
    /\ MeltInit
    /\ now \in GlobalTimes
    /\ \E lu \in GlobalTimes, slu \in GlobalTimes, e \in GlobalTimes,
          nhp \in {0, contract_terms(0).hp},
          rate \in {0, StakingRewardRate}, total \in {0, StakedMindTotal} :
         /\ lu <= now /\ slu <= now
         /\ cfg = [InitConfig EXCEPT
                      !.last_update_ts = lu, !.network_hp_active = nhp,
                      !.staking_last_update_ts = slu,
                      !.staking_epoch_end_ts = e,
                      !.staking_reward_rate_xnt_per_sec = rate,
                      !.staking_total_staked_mind = total]
    /\ hp_scale_config = FALSE
    /\ user_stake = [o \in Owners |-> NoUserStake]
    /\ staking_reward_vault = 0
    /\ profiles = [o \in Owners |-> ProfileAt(o)]
    /\ positions = [p \in PosIds |-> NoPosition]
    /\ mind_minted = 0 /\ emitted = 0 /\ ops = 0 /\ last = NoOp
    /\ accAtEnd = [p \in PosIds |-> Unset]
    /\ frozenHp = [p \in PosIds |-> -1]
    /\ expiries = [p \in PosIds |-> 0]

NextGlobal ==
    \/ \E t \in GlobalTimes : UpdateMiningGlobal(t) /\ UNCHANGED <<stakingVars, pocmVars, meltVars>>
    \/ \E t \in GlobalTimes : UpdateStakingGlobal(t) /\ UNCHANGED <<stakingVars, pocmVars, meltVars>>

SpecGlobal == InitGlobal /\ [][NextGlobal]_vars

\* mining_v2: the purchases and renewals of one owner
NextRenew ==
    \/ Tick /\ UNCHANGED <<hp_scale_config, stakingVars, pocmVars, meltVars>>
    \/ \E ct \in ContractTypes, i \in 0..(MaxIndex - 1) :
         BuyContract("alice", ct, i) /\ UNCHANGED <<hp_scale_config, stakingVars, pocmVars, meltVars>>
    \/ \E pid \in PosIds :
         RenewRig("alice", pid) /\ UNCHANGED <<hp_scale_config, stakingVars, pocmVars, meltVars>>
    \/ \E pid \in PosIds :
         RenewRigWithBuff("alice", pid) /\ UNCHANGED <<hp_scale_config, stakingVars, pocmVars, meltVars>>

SpecRenew == Init /\ [][NextRenew]_vars

\* mining_v2: one owner buys, claims and renews under a low ceiling
InitCeiling ==
    /\ MiningInitWith([InitConfig EXCEPT !.max_effective_hp = LowCeiling])
    /\ PocmInit
    /\ MeltInit

NextCeiling ==
    \/ Tick /\ UNCHANGED <<hp_scale_config, stakingVars, pocmVars, meltVars>>
    \/ \E ct \in ContractTypes, i \in 0..1 :
         BuyContract("alice", ct, i)
           /\ UNCHANGED <<hp_scale_config, stakingVars, pocmVars, meltVars>>
    \/ \E pid \in {<<"alice", 0>>, <<"alice", 1>>} :
         RenewRig("alice", pid) /\ UNCHANGED <<hp_scale_config, stakingVars, pocmVars, meltVars>>
    \/ \E pid \in {<<"alice", 0>>, <<"alice", 1>>} :
         RenewRigWithBuff("alice", pid)
           /\ UNCHANGED <<hp_scale_config, stakingVars, pocmVars, meltVars>>
    \/ \E pid \in {<<"alice", 0>>, <<"alice", 1>>} :
         ClaimMind("alice", pid) /\ UNCHANGED <<hp_scale_config, stakingVars, pocmVars, meltVars>>

SpecCeiling == InitCeiling /\ [][NextCeiling]_vars

\* mining_v2: the pool shared by one position of each owner
NextPool ==
    \/ Tick /\ UNCHANGED <<hp_scale_config, stakingVars, pocmVars, meltVars>>
    \/ \E caller \in Owners, ct \in ContractTypes :
         BuyContract(caller, ct, 0)
           /\ UNCHANGED <<hp_scale_config, stakingVars, pocmVars, meltVars>>
    \/ \E caller \in Owners :
         ClaimMind(caller, <<caller, 0>>)
           /\ UNCHANGED <<hp_scale_config, stakingVars, pocmVars, meltVars>>

SpecPool == Init /\ [][NextPool]_vars

\* mining_v2: staking of MIND for the XNT of staking_reward_vault
NextMind ==
    \/ Tick /\ UNCHANGED <<hp_scale_config, stakingVars, pocmVars, meltVars>>
    \/ \E caller \in Owners, amount \in MindAmounts :
         StakeMind(caller, amount) /\ UNCHANGED <<pocmVars, meltVars>>
    \/ \E caller \in Owners, amount \in MindAmounts :
         UnstakeMind(caller, amount) /\ UNCHANGED <<pocmVars, meltVars>>
    \/ RollEpoch(EpochSeconds) /\ UNCHANGED <<pocmVars, meltVars>>
    \/ TransferToVault(VaultGift) /\ UNCHANGED <<pocmVars, meltVars>>

SpecMind == Init /\ [][NextMind]_vars

\* mining_v2: one owner buys, renews and deactivates
NextGrace ==
    \/ Tick /\ UNCHANGED <<hp_scale_config, stakingVars, pocmVars, meltVars>>
    \/ \E ct \in ContractTypes, i \in 0..(MaxIndex - 1) :
         BuyContract("alice", ct, i) /\ UNCHANGED <<hp_scale_config, stakingVars, pocmVars, meltVars>>
    \/ \E pid \in PosIds :
         RenewRig("alice", pid) /\ UNCHANGED <<hp_scale_config, stakingVars, pocmVars, meltVars>>
    \/ \E pid \in PosIds :
         DeactivatePosition("alice", pid) /\ UNCHANGED <<hp_scale_config, stakingVars, pocmVars, meltVars>>

SpecGrace == Init /\ [][NextGrace]_vars

\* mining_v2: the whole life of one position account
NextLife ==
    \/ Tick /\ UNCHANGED <<hp_scale_config, stakingVars, pocmVars, meltVars>>
    \/ \E ct \in ContractTypes :
         BuyContract("alice", ct, 0) /\ UNCHANGED <<hp_scale_config, stakingVars, pocmVars, meltVars>>
    \/ RenewRig("alice", <<"alice", 0>>) /\ UNCHANGED <<hp_scale_config, stakingVars, pocmVars, meltVars>>
    \/ RenewRigWithBuff("alice", <<"alice", 0>>)
         /\ UNCHANGED <<hp_scale_config, stakingVars, pocmVars, meltVars>>
    \/ ClaimMind("alice", <<"alice", 0>>) /\ UNCHANGED <<hp_scale_config, stakingVars, pocmVars, meltVars>>
    \/ DeactivatePosition("alice", <<"alice", 0>>)
         /\ UNCHANGED <<hp_scale_config, stakingVars, pocmVars, meltVars>>
    \/ LevelUp("alice") /\ UNCHANGED <<hp_scale_config, stakingVars, pocmVars, meltVars>>

SpecLife == Init /\ [][NextLife]_vars

\* mining_v2 initialized and not used
MiningIdle == MiningInit /\ cfg = InitConfig

InitPocm == MiningIdle /\ PocmInit /\ MeltInit

NextPocm ==
    \/ PocmTick /\ UNCHANGED <<miningVars, stakingVars, meltVars>>
    \/ \E caller \in Owners, d \in Durations, i \in 0..(MaxIndex - 1) :
         CreatePosition(caller, d, i) /\ UNCHANGED <<miningVars, stakingVars, meltVars>>
    \/ \E caller \in Owners, pid \in PosIds, d \in Durations :
         Deposit(caller, pid, fee_for_duration(d, XntDecimals))
             /\ UNCHANGED <<miningVars, stakingVars, meltVars>>
    \/ \E caller \in Owners, list \in Lists, amount \in ClaimAmounts :
         Claim(caller, list, amount) /\ UNCHANGED <<miningVars, stakingVars, meltVars>>
    \/ \E caller \in Owners, pid \in PosIds :
         Withdraw(caller, pid) /\ UNCHANGED <<miningVars, stakingVars, meltVars>>

SpecPocm == InitPocm /\ [][NextPocm]_vars

\* pocm_vault_mining: one owner's positions, claimed one account at a time
NextVest ==
    \/ PocmTick /\ UNCHANGED <<miningVars, stakingVars, meltVars>>
    \/ \E d \in Durations, i \in 0..(MaxIndex - 1) :
         CreatePosition("alice", d, i) /\ UNCHANGED <<miningVars, stakingVars, meltVars>>
    \/ \E pid \in PosIds, d \in Durations :
         Deposit("alice", pid, fee_for_duration(d, XntDecimals))
             /\ UNCHANGED <<miningVars, stakingVars, meltVars>>
    \/ \E pid \in PosIds, amount \in ClaimAmounts :
         Claim("alice", <<pid>>, amount) /\ UNCHANGED <<miningVars, stakingVars, meltVars>>
    \/ \E pid \in PosIds :
         Withdraw("alice", pid) /\ UNCHANGED <<miningVars, stakingVars, meltVars>>

SpecVest == InitPocm /\ [][NextVest]_vars

InitStake == MiningIdle /\ StakeInit /\ MeltInit

NextStake ==
    \/ PocmTick /\ UNCHANGED <<miningVars, stakingVars, meltVars>>
    \/ \E caller \in Owners, d \in Durations, i \in 0..(MaxIndex - 1) :
         CreatePosition(caller, d, i) /\ UNCHANGED <<miningVars, stakingVars, meltVars>>
    \/ \E caller \in Owners, pid \in PosIds, d \in Durations :
         Deposit(caller, pid, fee_for_duration(d, XntDecimals))
             /\ UNCHANGED <<miningVars, stakingVars, meltVars>>
    \/ \E caller \in Owners, d \in Durations, i \in 0..(MaxIndex - 1),
          amount \in StakeAmounts :
         CreateStake(caller, d, i, amount) /\ UNCHANGED <<miningVars, stakingVars, meltVars>>
    \/ \E caller \in Owners, i \in 0..(MaxIndex - 1), amount \in ClaimAmounts :
         ClaimStakeReward(caller, i, amount) /\ UNCHANGED <<miningVars, stakingVars, meltVars>>
    \/ \E caller \in Owners, i \in 0..(MaxIndex - 1) :
         WithdrawStake(caller, i) /\ UNCHANGED <<miningVars, stakingVars, meltVars>>
    \/ \E amount \in FundAmounts :
         AdminFundStakingXnt(amount) /\ UNCHANGED <<miningVars, stakingVars, meltVars>>

SpecStake == InitStake /\ [][NextStake]_vars

\* mining_v2: the profile account of alice is a record of one of the three
\* generations, as the program version of its generation wrote it (the
\* fields a generation does not have are the zero bytes of the realloc)
ProfileRecords ==
    LET v1 == {[LegacyProfile EXCEPT !.next_position_index = n,
                                     !.active_hp = hp, !.xp = xp,
                                     !.badge_tier = t, !.badge_bonus_bps = b] :
                 n \in 0..1, hp \in {0, LegacyHp}, xp \in {0, 5},
                 t \in 0..1, b \in {0, 50}}
        v2legacy == {[r EXCEPT !.size = "V2Legacy", !.level = l] :
                       r \in v1, l \in 0..2}
        current == {[r EXCEPT !.size = "V2", !.hp_scaled = TRUE,
                              !.active_hp = @ * HP_SCALE] :
                      r \in {q \in v2legacy : q.level >= 1}}
    IN  v1 \cup v2legacy \cup current

InitProfile ==
    /\ now = 0
    /\ user_stake = [o \in Owners |-> NoUserStake]
    /\ staking_reward_vault = 0
    /\ mind_minted = 0
    /\ emitted = 0
    /\ accAtEnd = [p \in PosIds |-> Unset]
    /\ frozenHp = [p \in PosIds |-> -1]
    /\ expiries = [p \in PosIds |-> 0]
    /\ last = NoOp
    /\ ops = 0
    /\ cfg = InitConfig
    /\ hp_scale_config = TRUE
    /\ positions = [p \in PosIds |-> NoPosition]
    /\ \E r \in ProfileRecords :
         profiles = [o \in Owners |-> IF o = "alice" THEN r ELSE ProfileAt(o)]
    /\ PocmInit
    /\ MeltInit

\* the write of ensure_user_profile_v2, with which every instruction that
\* takes the profile begins
EnsureUserProfileV2(owner) ==
    /\ profiles[owner].size # "none"
    /\ profiles' = [profiles EXCEPT
                       ![owner] = ensure_user_profile_v2(profiles[owner], now)]
    /\ last' = [NoOp EXCEPT !.op = "ensure_user_profile_v2", !.caller = owner]
    /\ UNCHANGED <<now, cfg, positions, mind_minted, emitted, accAtEnd,
                   frozenHp, expiries, ops>>

NextProfile ==
    \/ Tick /\ UNCHANGED <<hp_scale_config, stakingVars, pocmVars, meltVars>>
    \/ EnsureUserProfileV2("alice")
          /\ UNCHANGED <<hp_scale_config, stakingVars, pocmVars, meltVars>>

SpecProfile == InitProfile /\ [][NextProfile]_vars

\* melt_v1: rounds are funded, started, burned into, finalized and claimed
InitMelt == MiningIdle /\ PocmInit /\ MeltInit

NextMelt ==
    \/ MeltTick /\ UNCHANGED <<miningVars, stakingVars, pocmVars>>
    \/ AdminTopupVial(MeltAdmin, VaultCap)
          /\ UNCHANGED <<miningVars, stakingVars, pocmVars>>
    \/ \E user \in Owners, seq \in RoundSeqs, amount \in BurnAmounts :
         BurnMind(user, seq, amount)
           /\ UNCHANGED <<miningVars, stakingVars, pocmVars>>
    \/ \E seq \in RoundSeqs :
         FinalizeRound(seq) /\ UNCHANGED <<miningVars, stakingVars, pocmVars>>
    \/ \E user \in Owners, seq \in RoundSeqs :
         MeltClaim(user, seq) /\ UNCHANGED <<miningVars, stakingVars, pocmVars>>

SpecMelt == InitMelt /\ [][NextMelt]_vars

\* melt_v1: rounds are started and finalized by the funding instructions,
\* start_round and finalize_round, with the admin changing the cap and the
\* rollover in between
NextRounds ==
    \/ MeltTick /\ UNCHANGED <<miningVars, stakingVars, pocmVars>>
    \/ AdminTopupVial(MeltAdmin, SmallTopup)
          /\ UNCHANGED <<miningVars, stakingVars, pocmVars>>
    \/ AdminTopupVault(MeltAdmin, VaultCap)
          /\ UNCHANGED <<miningVars, stakingVars, pocmVars>>
    \/ RecordFunding(VaultCap)
          /\ UNCHANGED <<miningVars, stakingVars, pocmVars>>
    \/ StartRound(MeltAdmin) /\ UNCHANGED <<miningVars, stakingVars, pocmVars>>
    \/ \E cap \in {<<>>, <<SmallTopup>>}, bps \in {<<>>, <<5000>>} :
         AdminSetParams(MeltAdmin, cap, bps, <<>>, <<>>)
           /\ (cap # <<>> \/ bps # <<>>)
           /\ UNCHANGED <<miningVars, stakingVars, pocmVars>>
    \/ \E seq \in RoundSeqs :
         FinalizeRound(seq) /\ UNCHANGED <<miningVars, stakingVars, pocmVars>>

SpecRounds == InitMelt /\ [][NextRounds]_vars

\* melt_v1: every instruction that can start or finalize a round, with
\* one burner
NextMachine ==
    \/ MeltTick /\ UNCHANGED <<miningVars, stakingVars, pocmVars>>
    \/ AdminTopupVial(MeltAdmin, SmallTopup)
          /\ UNCHANGED <<miningVars, stakingVars, pocmVars>>
    \/ AdminTopupVault(MeltAdmin, VaultCap)
          /\ UNCHANGED <<miningVars, stakingVars, pocmVars>>
    \/ RecordFunding(VaultCap) /\ UNCHANGED <<miningVars, stakingVars, pocmVars>>
    \/ StartRound(MeltAdmin) /\ UNCHANGED <<miningVars, stakingVars, pocmVars>>
    \/ AdminSetParams(MeltAdmin, <<SmallTopup>>, <<>>, <<>>, <<>>)
          /\ UNCHANGED <<miningVars, stakingVars, pocmVars>>
    \/ \E seq \in RoundSeqs :
         BurnMind("alice", seq, 1) /\ UNCHANGED <<miningVars, stakingVars, pocmVars>>
    \/ \E seq \in RoundSeqs :
         FinalizeRound(seq) /\ UNCHANGED <<miningVars, stakingVars, pocmVars>>
    \/ \E seq \in RoundSeqs :
         MeltClaim("alice", seq) /\ UNCHANGED <<miningVars, stakingVars, pocmVars>>

SpecMachine == InitMelt /\ [][NextMachine]_vars

\* melt_v1: rounds are funded, burned into and settled under a clock that
\* advances and a finalize_round that is called whenever it can succeed.
\* LiveRoom keeps one instruction per round for finalize_round, and CanFund
\* funds only rounds that fit the round accounts and the clock.
LiveRoom == melt_ops < MeltMaxOps - MaxRounds

CanFund ==
    /\ melt_now + RoundWindow < MeltMaxNow
    /\ melt_config.round_seq
         + (melt_config.vial_lamports \div melt_config.vault_cap_lamports)
           < MaxRounds

LiveTick == MeltTick /\ UNCHANGED <<miningVars, stakingVars, pocmVars>>

LiveFinalize ==
    \E seq \in RoundSeqs :
        FinalizeRound(seq) /\ UNCHANGED <<miningVars, stakingVars, pocmVars>>

NextLive ==
    \/ LiveTick
    \/ LiveRoom /\ CanFund /\ RecordFunding(VaultCap)
          /\ UNCHANGED <<miningVars, stakingVars, pocmVars>>
    \/ LiveRoom /\ CanFund /\ AdminTopupVault(MeltAdmin, VaultCap)
          /\ UNCHANGED <<miningVars, stakingVars, pocmVars>>
    \/ \E seq \in RoundSeqs, amount \in BurnAmounts :
         LiveRoom /\ BurnMind("alice", seq, amount)
           /\ UNCHANGED <<miningVars, stakingVars, pocmVars>>
    \/ \E seq \in RoundSeqs :
         LiveRoom /\ MeltClaim("alice", seq)
           /\ UNCHANGED <<miningVars, stakingVars, pocmVars>>
    \/ LiveFinalize

SpecLive ==
    InitMelt /\ [][NextLive]_vars /\ WF_vars(LiveTick) /\ WF_vars(LiveFinalize)

\* melt_v1: rounds are scheduled with windows from the whole range of u64
Windows == {RoundWindow, I64Max, I64Max + 1, U64Max}

NextWindow ==
    \/ MeltTick /\ UNCHANGED <<miningVars, stakingVars, pocmVars>>
    \/ \E w \in Windows :
         AdminSetParams(MeltAdmin, <<>>, <<>>, <<>>, <<w>>)
           /\ UNCHANGED <<miningVars, stakingVars, pocmVars>>
    \/ \E start_ts \in {0, -1 - I64Max}, end_ts \in {RoundWindow + 1, I64Max} :
         AdminSetSchedule(MeltAdmin, start_ts, end_ts)
           /\ UNCHANGED <<miningVars, stakingVars, pocmVars>>
    \/ AdminTopupVault(MeltAdmin, VaultCap)
          /\ UNCHANGED <<miningVars, stakingVars, pocmVars>>
    \/ \E seq \in RoundSeqs :
         FinalizeRound(seq) /\ UNCHANGED <<miningVars, stakingVars, pocmVars>>

SpecWindow == InitMelt /\ [][NextWindow]_vars

\* melt_v1: the config account found by admin_migrate_config is a record
\* of the current length, of the length of MeltConfigLegacyV1, or of
\* another length
ConfigAccounts ==
    LET legacy ==
            {[size |-> "legacy", admin |-> a, mind_mint |-> "mind_mint",
              vault |-> "melt_vault", vault_cap_lamports |-> VaultCap,
              rollover_bps |-> bps, burn_min |-> b,
              round_window_sec |-> RoundWindow, test_mode |-> t,
              round_seq |-> rs, bump_config |-> 254, bump_vault |-> 253] :
                a \in {MeltAdmin, "alice"}, bps \in {0, RolloverBps},
                b \in {0, 1}, t \in BOOLEAN, rs \in 0..MaxRounds}
        current(size) ==
            {[f \in CurrentFields \cup {"size"} |->
                CASE f = "size" -> size
                  [] f \in LegacyFields -> old[f]
                  [] f = "vial_lamports" -> vial
                  [] f = "bonus_pool_lamports" -> bonus
                  [] f = "active_round_seq" -> IF active THEN old.round_seq ELSE 0
                  [] f = "active_round_active" -> active
                  [] OTHER -> pending] :
                old \in {l \in legacy : l.burn_min = 0},
                vial \in {0, VaultCap}, bonus \in {0, 2},
                active \in BOOLEAN, pending \in {0, RoundWindow}}
    IN  legacy \cup current("current") \cup current("other")

InitMigrate ==
    /\ MiningIdle
    /\ PocmInit
    /\ \E acct \in ConfigAccounts : MeltInitWith(acct)

NextMigrate ==
    \E signer \in Signers, rent_ok \in BOOLEAN :
      AdminMigrateConfig(signer, rent_ok)
        /\ UNCHANGED <<miningVars, stakingVars, pocmVars>>

SpecMigrate == InitMigrate /\ [][NextMigrate]_vars

-----------------------------------------------------------------------------
(* mining_v2: properties stated over steps and over the helper functions   *)

\* C12: acc_mind_per_hp never decreases: every instruction, the admin
\* instructions included, leaves it at least as large as it was.
C12_AccumulatorNeverDecreases ==
    [][BigLeq(cfg.acc_mind_per_hp, cfg'.acc_mind_per_hp)]_vars

\* C14: deactivate_position is idempotent.  A call on a position that is
\* already deactivated changes neither the position, network_hp_active,
\* acc_mind_per_hp nor the owner's active_hp; and after any call the weight of
\* the position has left network_hp_active at most once, the earlier expiry
\* counted.
C14_DeactivateIsIdempotent ==
    [][last'.op = "deactivate_position" =>
          /\ load_position_any(positions[last'.pid]).deactivated =>
                /\ positions'[last'.pid] = positions[last'.pid]
                /\ cfg'.network_hp_active = cfg.network_hp_active
                /\ cfg'.acc_mind_per_hp = cfg.acc_mind_per_hp
                /\ profiles'[last'.caller].active_hp
                      = profiles[last'.caller].active_hp
          /\ expiries'[last'.pid] <= 1]_vars

\* C15: for every owner, profile.active_hp is the sum of the scaled base hp
\* of the owner's positions that are neither expired nor deactivated.
C15_ActiveHpIsSumOfLiveBaseHp ==
    \A o \in Owners :
        ActiveHpOf(o) = SumBaseHpOver({pid \in PosIds : pid[1] = o /\ Live(pid)})

\* C16: a level_up or renew_rig_with_buff that is accepted was given a list
\* whose eligible positions add up to the owner's active_hp (for the renewal:
\* to active_hp without the renewed position); and neither is accepted
\* while the owner has another position that is past its end_ts and not yet
\* marked expired.
C16_StalePositionBlocksLevelUp ==
  [][LET stale(pid) ==
            Live(pid) /\ now >= load_position_any(positions[pid]).end_ts
        eligible(pid, owner, renewed) ==
            /\ pid[1] = owner /\ pid # renewed /\ Live(pid)
            /\ now < load_position_any(positions[pid]).end_ts
        RECURSIVE list_base_hp(_, _, _, _)
        list_base_hp(list, i, owner, renewed) ==
            IF i = 0 THEN 0
            ELSE list_base_hp(list, i - 1, owner, renewed)
                   + (IF eligible(list[i], owner, renewed)
                      THEN position_base_hp_scaled(
                               load_position_any(positions[list[i]]))
                      ELSE 0)
        active_hp_after(owner) ==
            ensure_profile_hp_scaled(load_user_profile_any(profiles'[owner])).active_hp
        listed(l) == list_base_hp(l.list, Len(l.list), l.caller, l.pid)
    IN  /\ last'.op = "level_up" =>
             listed(last') = active_hp_after(last'.caller)
        /\ last'.op = "renew_rig_with_buff" =>
             listed(last') + position_base_hp_scaled(
                                 load_position_any(positions'[last'.pid]))
               = active_hp_after(last'.caller)
        /\ last'.op \in {"level_up", "renew_rig_with_buff"} =>
             \A pid \in PosIds :
                 (pid[1] = last'.caller /\ pid # last'.pid) => ~stale(pid)]_vars

\* C19: renew_rig and renew_rig_with_buff called by the owner of a position
\* fail with PositionNotExpired while now < end_ts and with
\* PositionGraceExpired once now > end_ts + 2 * seconds_per_day, whatever
\* accounts are listed; no renewal step is taken outside that window, so
\* that neither the position, the profile nor the Config changes.
C19_RenewOutsideWindowRejected ==
    /\ [](\A pid \in PosIds :
            LET p == load_position_any(positions[pid])
                verdict == IF now < p.end_ts THEN "PositionNotExpired"
                           ELSE IF now > p.end_ts + 2 * cfg.seconds_per_day
                           THEN "PositionGraceExpired"
                           ELSE "InWindow"
            IN  (positions[pid].size # "none" /\ verdict # "InWindow") =>
                  /\ renew_rig(cfg, positions[pid], profiles[pid[1]], TRUE, now).err
                       = verdict
                  /\ \A list \in {l \in Lists : Len(l) <= 1}, funds_ok \in BOOLEAN :
                       renew_rig_with_buff(cfg, positions, pid, profiles[pid[1]],
                                           pid[1], list, funds_ok, now).err
                         = verdict)
    /\ [][last'.op \in {"renew_rig", "renew_rig_with_buff"} =>
            /\ now >= load_position_any(positions[last'.pid]).end_ts
            /\ now <= load_position_any(positions[last'.pid]).end_ts
                         + 2 * cfg.seconds_per_day]_vars

\* one position of an owner is past its grace deadline and another one has
\* not reached its end_ts: a renewal of either is refused
C19_RenewalsRefused ==
    \E pid \in PosIds, qid \in PosIds :
        /\ positions[pid].size # "none" /\ positions[qid].size # "none"
        /\ now > load_position_any(positions[pid]).end_ts + 2 * cfg.seconds_per_day
        /\ renew_rig(cfg, positions[pid], profiles[pid[1]], TRUE, now).err
             = "PositionGraceExpired"
        /\ now < load_position_any(positions[qid]).end_ts
        /\ renew_rig_with_buff(cfg, positions, qid, profiles[qid[1]], qid[1],
                               <<>>, TRUE, now).err = "PositionNotExpired"

\* C21: grace window.  For a position with maturity end_ts: before end_ts
\* renew_rig, renew_rig_with_buff and deactivate_position all fail with
\* PositionNotExpired; from end_ts on the renewals pass their time checks
\* exactly while now <= end_ts + 2 * seconds_per_day, and
\* deactivate_position of a position that is not deactivated fails with
\* PositionInGrace during that window and passes its time checks exactly
\* after it, so that exactly one of the two is permitted by the clock; no
\* renewal step and no deactivating step is taken at a time at which it is
\* not permitted.
C21_RenewOrDeactivate ==
    /\ [](\A pid \in PosIds :
            LET p == load_position_any(positions[pid])
                deadline == p.end_ts + 2 * cfg.seconds_per_day
                timed == {"PositionNotExpired", "PositionGraceExpired",
                          "PositionInGrace"}
                renew == renew_rig(cfg, positions[pid], profiles[pid[1]], TRUE, now)
                buffed == renew_rig_with_buff(cfg, positions, pid, profiles[pid[1]],
                                              pid[1], <<>>, TRUE, now)
                deact == deactivate_position(cfg, positions[pid], profiles[pid[1]],
                                             TRUE, now)
            IN  positions[pid].size # "none" =>
                  /\ now < p.end_ts =>
                        /\ renew.err = "PositionNotExpired"
                        /\ buffed.err = "PositionNotExpired"
                        /\ deact.err = "PositionNotExpired"
                  /\ now >= p.end_ts =>
                        /\ renew.err \notin timed <=> now <= deadline
                        /\ buffed.err \notin timed <=> now <= deadline
                        /\ ~p.deactivated =>
                              /\ deact.err \notin timed <=> now > deadline
                              /\ now <= deadline => deact.err = "PositionInGrace"
                              /\ (renew.err \notin timed) # (deact.err \notin timed))
    /\ [][/\ last'.op \in {"renew_rig", "renew_rig_with_buff"} =>
              /\ now >= load_position_any(positions[last'.pid]).end_ts
              /\ now <= load_position_any(positions[last'.pid]).end_ts
                           + 2 * cfg.seconds_per_day
          /\ (/\ last'.op = "deactivate_position"
              /\ ~load_position_any(positions[last'.pid]).deactivated) =>
              /\ load_position_any(positions'[last'.pid]).deactivated
              /\ now > load_position_any(positions[last'.pid]).end_ts
                          + 2 * cfg.seconds_per_day]_vars

\* one position is in its grace window (renewable, not deactivable) while
\* another one, deactivated by the step just taken, was past it
C21_BothSidesOfDeadline ==
    \E pid \in PosIds :
        LET p == load_position_any(positions[pid])
        IN  /\ positions[pid].size # "none" /\ ~p.deactivated
            /\ now >= p.end_ts /\ now <= p.end_ts + 2 * cfg.seconds_per_day
            /\ renew_rig(cfg, positions[pid], profiles[pid[1]], TRUE, now).err = "Ok"
            /\ deactivate_position(cfg, positions[pid], profiles[pid[1]], TRUE, now)
                 .err = "PositionInGrace"
            /\ last.op = "deactivate_position" /\ last.pid # pid
            /\ load_position_any(positions[last.pid]).deactivated
            /\ last.expired

\* C22: Deactivated is terminal.  The clock never goes back in this
\* specification.  A position with deactivated = true cannot be renewed
\* (both renewals return PositionGraceExpired) and is refused in a level_up
\* list; no step sets its deactivated flag back to false, and an
\* instruction executed on it (claim_mind, deactivate_position) leaves
\* network_hp_active and the owner's active_hp as they are.
C22_DeactivatedIsTerminal ==
    /\ [](\A pid \in PosIds :
            load_position_any(positions[pid]).deactivated =>
              /\ renew_rig(cfg, positions[pid], profiles[pid[1]], TRUE, now).err
                   = "PositionGraceExpired"
              /\ renew_rig_with_buff(cfg, positions, pid, profiles[pid[1]], pid[1],
                                     <<>>, TRUE, now).err = "PositionGraceExpired"
              /\ level_up(cfg, positions, profiles[pid[1]], pid[1], <<pid>>, TRUE, now)
                   .err # "Ok")
    /\ [][\A pid \in PosIds :
            load_position_any(positions[pid]).deactivated =>
              /\ load_position_any(positions'[pid]).deactivated
              /\ last'.op = "level_up" => pid \notin Range(last'.list)
              /\ (last'.op # "none" /\ last'.pid = pid) =>
                    /\ last'.op \in {"claim_mind", "deactivate_position"}
                    /\ cfg'.network_hp_active = cfg.network_hp_active
                    /\ ensure_profile_hp_scaled(
                           load_user_profile_any(profiles'[pid[1]])).active_hp
                         = ensure_profile_hp_scaled(
                               load_user_profile_any(profiles[pid[1]])).active_hp]_vars

\* a claim_mind has just been executed on a deactivated position, which a
\* renewal no longer reaches
C22_ClaimedAfterDeactivation ==
    /\ last.op = "claim_mind"
    /\ load_position_any(positions[last.pid]).deactivated
    /\ last.reward > 0
    /\ renew_rig(cfg, positions[last.pid], profiles[last.caller], TRUE, now).err
         = "PositionGraceExpired"

\* C23: a change of stake size does not change what the staker is owed.
\* With the accumulator advanced to the time of the instruction, reward_owed
\* + pending_stake right after a stake_mind or unstake_mind equals
\* reward_owed + pending_stake right before it, and the reward_debt written
\* is earned_per_stake(new staked_mind, staking_acc_xnt_per_mind).
C23_StakeChangeKeepsOwed ==
    [][\A o \in Owners :
         (last'.op \in {"stake_mind", "unstake_mind"} /\ last'.caller = o) =>
           /\ cfg'.staking_acc_xnt_per_mind
                = update_staking_global(cfg, now).staking_acc_xnt_per_mind
           /\ user_stake'[o].reward_owed + pending_stake(cfg', user_stake'[o])
                = user_stake[o].reward_owed
                    + pending_stake(update_staking_global(cfg, now), user_stake[o])
           /\ user_stake'[o].reward_debt
                = earned_per_stake(user_stake'[o].staked_mind,
                                   cfg'.staking_acc_xnt_per_mind)
           /\ user_stake'[o].staked_mind # user_stake[o].staked_mind
           /\ cfg'.staking_total_staked_mind - cfg.staking_total_staked_mind
                = user_stake'[o].staked_mind - user_stake[o].staked_mind]_vars

\* a staker has just changed the size of a stake on which a reward had
\* accrued since its reward_debt was written
C23_OwedCarriedOver ==
    /\ last.op \in {"stake_mind", "unstake_mind"}
    /\ user_stake[last.caller].reward_owed > 0
    /\ user_stake[last.caller].staked_mind > 0
    /\ user_stake[last.caller].reward_debt > 0
    /\ \E o \in Owners : o # last.caller /\ user_stake[o].staked_mind > 0

\* the positions that share the pool since Config.last_update_ts: they hold
\* all of network_hp_active, none has reached its end_ts, and each one's
\* reward_debt is what it had earned at the stored accumulator value
PoolSince ==
    {pid \in PosIds :
        /\ Live(pid)
        /\ now <= load_position_any(positions[pid]).end_ts
        /\ positions[pid].reward_debt = earned_per_hp(WeightOf(pid), cfg.acc_mind_per_hp)}

SharedInterval ==
    /\ PoolSince = {pid \in PosIds : Live(pid)}
    /\ PoolSince # {}
    /\ cfg.network_hp_active = SumWeightOver(PoolSince)
    /\ now > cfg.last_update_ts

\* floor(T * r * 10^18 / sum(w)) for the interval from last_update_ts to now
IntervalDelta ==
    BigDivSmall(BigShiftUp(BigFromInt((now - cfg.last_update_ts) * cfg.emission_per_sec),
                           AccScaleLimbs),
                cfg.network_hp_active)

\* floor(w * floor(T * r * 10^18 / sum(w)) / 10^18)
FlooredShare(w) == BigToInt(BigShiftDown(BigMulSmall(IntervalDelta, w), AccScaleLimbs))

\* pending_mind of the position once update_mining_global(now) has run
PendingAtNow(pid) ==
    pending_mind(WeightOf(pid), update_mining_global(cfg, now).acc_mind_per_hp,
                 positions[pid].reward_debt)

\* C24 as stated: positions with constant weights that share the pool
\* over an interval of length T at emission rate r each have pending_mind
\* exactly floor(w_i * floor(T * r * 10^18 / sum(w)) / 10^18).
C24_PendingIsFlooredShare ==
    SharedInterval => \A pid \in PoolSince : PendingAtNow(pid) = FlooredShare(WeightOf(pid))

\* C24, amended: proportional split up to rounding.  For positions with
\* constant weights that share the pool over an interval of length T at
\* emission rate r, pending_mind of position i is
\* floor(w_i * (acc + d) / 10^18) - floor(w_i * acc / 10^18), where acc is
\* the accumulator at the start of the interval and d = floor(T * r * 10^18
\* / sum(w)); this is floor(w_i * d / 10^18) or that value plus 1, and it
\* is floor(w_i * d / 10^18) when acc = 0.  One position of weight 1 over
\* 10 s at rate 100 has pending 1000, and weights 1 and 3 over 100 s at
\* rate 100 have 2500 and 7500.
C24_PendingWithinOneOfShare ==
    /\ SharedInterval =>
          \A pid \in PoolSince :
             /\ PendingAtNow(pid)
                  = earned_per_hp(WeightOf(pid),
                                  BigAdd(cfg.acc_mind_per_hp, IntervalDelta))
                      - earned_per_hp(WeightOf(pid), cfg.acc_mind_per_hp)
             /\ PendingAtNow(pid) \in {FlooredShare(WeightOf(pid)),
                                       FlooredShare(WeightOf(pid)) + 1}
             /\ cfg.acc_mind_per_hp = <<>> =>
                   PendingAtNow(pid) = FlooredShare(WeightOf(pid))
    /\ LET one == update_mining_global(
                      [InitConfig EXCEPT !.emission_per_sec = 100,
                                         !.network_hp_active = 1], 10)
           two == update_mining_global(
                      [InitConfig EXCEPT !.emission_per_sec = 100,
                                         !.network_hp_active = 1 + 3], 100)
       IN  /\ pending_mind(1, one.acc_mind_per_hp, 0) = 1000
           /\ pending_mind(1, two.acc_mind_per_hp, 0) = 2500
           /\ pending_mind(3, two.acc_mind_per_hp, 0) = 7500

\* two positions have shared the pool since the accumulator stood at a
\* value with a fraction, and one of them is owed its floored share plus 1
C24_ShareRoundedUp ==
    /\ SharedInterval
    /\ Cardinality(PoolSince) = 2
    /\ cfg.acc_mind_per_hp # <<>>
    /\ \E pid \in PoolSince : PendingAtNow(pid) = FlooredShare(WeightOf(pid)) + 1

\* C25: effective_hp_scaled(base, level, buff_bps) is
\* floor(floor(base * (10000 + buff_bps) / 10000) * (10000 +
\* level_bonus_bps(level)) / 10000), the rig buff first and the level bonus
\* second, and network_hp_active moves by that function of the position
\* wherever a weight is added (buy_contract), adjusted (level_up: for every
\* listed position the value at the new level less the value at the old
\* level) or removed (the expiry applied by claim_mind or
\* deactivate_position).
C25_OneWeightFunction ==
    /\ [](\A ct \in ContractTypes, level \in 0..7, rig_type \in 0..2,
             buff_level \in 0..3 :
            LET base == contract_terms(ct).hp
                buff_bps == rig_buff_bps(rig_type, buff_level)
            IN  effective_hp_scaled(base, level, buff_bps)
                  = (((base * (10000 + buff_bps)) \div 10000)
                       * (10000 + level_bonus_bps(level))) \div 10000)
    /\ [][LET weight(posAcct, profAcct) ==
                  effective_hp_scaled(
                      position_base_hp_scaled(load_position_any(posAcct)),
                      load_user_profile_any(profAcct).level,
                      position_buff_bps(load_position_any(posAcct),
                          position_rig_type(load_position_any(posAcct), cfg), now))
              RECURSIVE adjusted(_, _)
              adjusted(list, i) ==
                  IF i = 0 THEN 0
                  ELSE adjusted(list, i - 1)
                         + weight(positions[list[i]], profiles'[list[i][1]])
                         - weight(positions[list[i]], profiles[list[i][1]])
          IN  /\ last'.op = "buy_contract" =>
                    cfg'.network_hp_active - cfg.network_hp_active
                      = weight(positions'[last'.pid], profiles'[last'.caller])
              /\ last'.op = "level_up" =>
                    cfg'.network_hp_active - cfg.network_hp_active
                      = adjusted(last'.list, Len(last'.list))
              /\ (last'.op \in {"claim_mind", "deactivate_position"}
                    /\ last'.expired) =>
                    cfg.network_hp_active - cfg'.network_hp_active
                      = weight(positions[last'.pid], profiles[last'.caller])]_vars

\* C26: an interval without active weight is not credited to anyone.
\* update_mining_global with network_hp_active = 0 and now > last_update_ts
\* sets last_update_ts = now and changes no other Config field; no step
\* taken while network_hp_active = 0 changes acc_mind_per_hp; and right
\* after buy_contract the position bought has pending_mind 0, also a moment
\* later as long as the clock has not moved.
C26_IdleIntervalNotCredited ==
    /\ []((cfg.network_hp_active = 0 /\ now > cfg.last_update_ts) =>
             update_mining_global(cfg, now) = [cfg EXCEPT !.last_update_ts = now])
    /\ [](last.op = "buy_contract" =>
             /\ PendingOf(last.pid) = 0
             /\ pending_mind(WeightOf(last.pid),
                             update_mining_global(cfg, now).acc_mind_per_hp,
                             positions[last.pid].reward_debt) = 0)
    /\ [][cfg.network_hp_active = 0 =>
            cfg'.acc_mind_per_hp = cfg.acc_mind_per_hp]_vars

\* a position has just been bought into a pool that had stood empty since
\* its last position expired, at an accumulator value that is not 0
C26_BoughtAfterIdleInterval ==
    /\ last.op = "buy_contract"
    /\ cfg.network_hp_active = WeightOf(last.pid)
    /\ cfg.acc_mind_per_hp # <<>>
    /\ cfg.last_update_ts = now
    /\ emitted < now * cfg.emission_per_sec
    /\ \E pid \in PosIds :
         /\ load_position_any(positions[pid]).expired
         /\ load_position_any(positions[pid]).end_ts < now

\* C27: per-owner ceiling.  With max_effective_hp as init_config wrote it,
\* the active_hp of every profile stays within max_effective_hp * HP_SCALE.
\* buy_contract, renew_rig and renew_rig_with_buff succeed only with the
\* new active_hp within it; they return MaxEffectiveHpExceeded only when
\* the active_hp of the profile at the check (for a renewal: after the
\* expiry of the old cycle) plus the base hp of the contract exceeds it,
\* and always do so then once the checks placed before it have passed.
C27_CeilingHolds ==
    LET ceiling == cfg.max_effective_hp * HP_SCALE
        exceeds(active_hp, base) == active_hp + base > ceiling
        guarded(r, active_hp, base, reached) ==
            /\ r.err = "Ok" => r.prof.active_hp <= ceiling
            /\ r.err = "MaxEffectiveHpExceeded" => exceeds(active_hp, base)
            /\ exceeds(active_hp, base) => r.err # "Ok"
            /\ (reached /\ exceeds(active_hp, base)) =>
                  r.err = "MaxEffectiveHpExceeded"
    IN  /\ \A o \in Owners : ActiveHpOf(o) <= ceiling
        /\ \A ct \in ContractTypes, i \in 0..(MaxIndex - 1) :
             positions[<<"alice", i>>].size = "none" =>
               guarded(buy_contract(cfg, profiles["alice"], ct, i, now),
                       ActiveHpOf("alice"), contract_terms(ct).hp,
                       i = profiles["alice"].next_position_index)
        /\ \A pid \in {q \in PosIds : q[1] = "alice"} :
             LET head == renew_head(cfg, positions[pid], profiles["alice"], TRUE, now)
                 base == contract_terms(position_rig_type(
                                load_position_any(positions[pid]), cfg)).hp
             IN  (positions[pid].size # "none" /\ head.err = "Ok") =>
                   /\ guarded(renew_rig(cfg, positions[pid], profiles["alice"],
                                        TRUE, now),
                              head.prof.active_hp, base, TRUE)
                   /\ \A list \in {l \in Lists : Len(l) <= 1}, funds_ok \in BOOLEAN :
                        guarded(renew_rig_with_buff(cfg, positions, pid,
                                    profiles["alice"], "alice", list, funds_ok, now),
                                head.prof.active_hp, base,
                                /\ funds_ok
                                /\ buff_loop(positions, list, Len(list), pid, "alice",
                                             head.cfg, now).base_total
                                     = head.prof.active_hp
                                /\ buff_loop(positions, list, Len(list), pid, "alice",
                                             head.cfg, now).err = "Ok")

\* the owner holds one rig, and both a purchase and the renewal of an
\* expired rig that is still in its grace window are refused for the ceiling
C27_CeilingRefuses ==
    /\ ActiveHpOf("alice") > 0
    /\ \E ct \in ContractTypes :
         buy_contract(cfg, profiles["alice"], ct,
                      profiles["alice"].next_position_index, now).err
           = "MaxEffectiveHpExceeded"
    /\ \E pid \in PosIds :
         /\ pid[1] = "alice" /\ load_position_any(positions[pid]).expired
         /\ renew_rig(cfg, positions[pid], profiles["alice"], TRUE, now).err
              = "MaxEffectiveHpExceeded"
         /\ \E list \in {l \in Lists : Len(l) <= 1} :
              renew_rig_with_buff(cfg, positions, pid, profiles["alice"], "alice",
                                  list, TRUE, now).err = "MaxEffectiveHpExceeded"

\* C13: no double accrual.  Right after update_mining_global(now) or
\* update_staking_global(now), the same call again changes no Config field,
\* also when now lies past staking_epoch_end_ts; and a call of either
\* function with any time up to its stored last update timestamp changes
\* no Config field.
C13_SecondUpdateChangesNothing ==
    /\ last.op = "update_mining_global" => update_mining_global(cfg, now) = cfg
    /\ last.op = "update_staking_global" => update_staking_global(cfg, now) = cfg
    /\ \A t \in GlobalTimes :
         /\ t <= cfg.last_update_ts => update_mining_global(cfg, t) = cfg
         /\ t <= cfg.staking_last_update_ts => update_staking_global(cfg, t) = cfg

\* update_staking_global has just accrued up to an epoch end the clock is past
C13_UpdatedPastEpochEnd ==
    /\ last.op = "update_staking_global"
    /\ now > cfg.staking_epoch_end_ts
    /\ cfg.staking_last_update_ts = cfg.staking_epoch_end_ts
    /\ cfg.staking_acc_xnt_per_mind # <<>>

-----------------------------------------------------------------------------
(* pocm_vault_mining: properties                                           *)

\* claimable reward of a staking position in the current state
StakeClaimableNow(sid) == stake_claimable(pocm_cfg, pocm_stakes[sid])

C10_ClaimWithinDistinctClaimable ==
    pocm_last.op = "claim" =>
        /\ pocm_last.minted <= pocm_last.claimable
        /\ OwedOver(OwnListed(pocm_last.list, pocm_last.caller)) - pocm_last.owed
             = pocm_last.minted

\* C17: mined_total never exceeds mined_cap, and the MIND minted is
\* mined_total; a claim(amount) whose amount exceeds the smaller of the total
\* claimable over the supplied accounts and mined_cap - mined_total is
\* rejected with ClaimAmountTooLarge or NothingToClaim, mints nothing and
\* leaves mined_total and the positions as they were.
C17_MintedWithinCap ==
    /\ pocm_cfg.mined_total <= pocm_cfg.mined_cap
    /\ pocm_minted = pocm_cfg.mined_total
    /\ \A caller \in Owners, list \in {l \in Lists : Len(l) <= 2},
          amount \in ClaimAmounts :
         amount > Min(claim_total(pocm_positions, list, 1, caller, pocm_cfg, pocm_now),
                      pocm_cfg.mined_cap - pocm_cfg.mined_total)
           => \E r \in {claim(pocm_cfg, pocm_positions, caller, list, amount,
                              pocm_now)} :
                /\ r.err \in {"ClaimAmountTooLarge", "NothingToClaim"}
                /\ r.minted = 0
                /\ r.cfg = pocm_cfg
                /\ r.accts = pocm_positions

\* part of the cap is used, and a claim within the claimable total exceeds
\* what is left of the cap
C17_CapBinds ==
    /\ pocm_last.op = "claim"
    /\ pocm_cfg.mined_total > 0
    /\ pocm_cfg.mined_total < pocm_cfg.mined_cap
    /\ \E caller \in Owners, list \in Lists, amount \in ClaimAmounts :
         /\ amount <= claim_total(pocm_positions, list, 1, caller, pocm_cfg, pocm_now)
         /\ amount > pocm_cfg.mined_cap - pocm_cfg.mined_total

C20_FundedOnce ==
    /\ [](\A pid \in PosIds, caller \in Owners, d \in Durations :
            pocm_positions[pid].locked_amount # 0 =>
                \E r \in {deposit(pocm_cfg, pocm_profiles[caller], pocm_positions[pid],
                                  caller, fee_for_duration(d, XntDecimals), pocm_now)} :
                    /\ r.err # "Ok"
                    /\ pocm_positions[pid].owner = caller => r.err = "PositionActive"
                    /\ r.pos = pocm_positions[pid]
                    /\ r.prof = pocm_profiles[caller]
                    /\ r.share = 0)
    /\ [][\A pid \in PosIds :
            (pocm_positions[pid].locked_amount # 0 /\ pocm_positions'[pid].owner # "") =>
                /\ pocm_positions'[pid].locked_amount = pocm_positions[pid].locked_amount
                /\ pocm_positions'[pid].lock_start_ts = pocm_positions[pid].lock_start_ts
                /\ pocm_positions'[pid].lock_end_ts = pocm_positions[pid].lock_end_ts
                /\ pocm_positions'[pid].accrued_owed >= pocm_positions[pid].accrued_owed]_vars

\* the owner of a funded position that has paid out part of its reward
\* deposits the fee again and is refused
C20_SecondDepositRefused ==
    \E pid \in PosIds :
        /\ pocm_positions[pid].locked_amount # 0
        /\ pocm_positions[pid].accrued_owed > 0
        /\ deposit(pocm_cfg, pocm_profiles[pid[1]], pocm_positions[pid], pid[1],
                   fee_for_duration(pocm_positions[pid].duration_days, XntDecimals),
                   pocm_now).err = "PositionActive"

\* the Config fields a funding event of `share` XNT is to change
FundingRecorded(before, after, share) ==
    /\ after.staking_reward_per_weight
         = accrue_staking_rewards(before, share).staking_reward_per_weight
    /\ after.staking_reward_pending
         = accrue_staking_rewards(before, share).staking_reward_pending

\* C11: a successful deposit (staking share amount / 4) or
\* admin_fund_staking_xnt(amount) leaves in the stored Config the growth of
\* staking_reward_per_weight by floor(share * 1e18 / total_staked_mind) when
\* total_staked_mind > 0, and of staking_reward_pending by share otherwise.
C11_FundingIsStored ==
    [][pocm_last'.op \in {"deposit", "admin_fund_staking_xnt"}
           => FundingRecorded(pocm_cfg, pocm_cfg', pocm_last'.share)]_vars

\* C28: admin_migrate_config.  A config account of the current length is
\* written back as it was; one of the length of MeltConfigLegacyV1 becomes
\* a record of the current length with every legacy field as it was and
\* vial_lamports, bonus_pool_lamports, active_round_seq, pending_window_sec
\* = 0 and active_round_active = FALSE; one of another length is rejected.
\* The migration goes through exactly for the admin of the record (and,
\* for a legacy record, with the rent of the new length paid), a failed
\* one writes nothing, and migrating the migrated account again, by
\* whatever call, leaves it as it is.
C28_MigrationIsIdempotent ==
    /\ [](\A signer \in Signers, rent_ok \in BOOLEAN :
            LET acct == melt_config
                r == migrate_melt_config_account(acct, signer, rent_ok)
            IN  /\ r.err # "Ok" => r.acct = acct
                /\ acct.size \notin {"current", "legacy"}
                     => r.err = "InvalidParams"
                /\ acct.size = "current" =>
                     /\ r.err = "Ok" <=> signer = acct.admin
                     /\ r.acct = acct
                /\ acct.size = "legacy" =>
                     /\ r.err = "Ok" <=> (signer = acct.admin /\ rent_ok)
                     /\ r.err = "Ok" =>
                          /\ DOMAIN r.acct = CurrentFields \cup {"size"}
                          /\ r.acct.size = "current"
                          /\ \A f \in LegacyFields : r.acct[f] = acct[f]
                          /\ r.acct.vial_lamports = 0
                          /\ r.acct.bonus_pool_lamports = 0
                          /\ r.acct.active_round_seq = 0
                          /\ r.acct.pending_window_sec = 0
                          /\ r.acct.active_round_active = FALSE
                /\ r.err = "Ok" =>
                     \A again \in BOOLEAN :
                       migrate_melt_config_account(r.acct, signer, again)
                         = [err |-> "Ok", acct |-> r.acct])
    /\ [][melt_last'.op = "admin_migrate_config" =>
            /\ melt_config'.size = "current"
            /\ melt_config.size = "current" => melt_config' = melt_config
            /\ melt_config.size = "legacy" =>
                 /\ \A f \in LegacyFields : melt_config'[f] = melt_config[f]
                 /\ melt_config'.vial_lamports = 0
                 /\ ~melt_config'.active_round_active]_vars

\* a legacy record (the only ones with burn_min = 1) has been upgraded and
\* migrated once more
C28_UpgradedAndMigratedAgain ==
    /\ melt_last.op = "admin_migrate_config"
    /\ melt_ops >= 2
    /\ melt_config.size = "current"
    /\ melt_config.burn_min = 1
    /\ melt_config.round_seq = MaxRounds
    /\ melt_config.vial_lamports = 0
    /\ ~melt_config.active_round_active

C29_ProfileUpgradeOnce ==
    /\ [](\A owner \in Owners :
            LET acct == profiles[owner]
                old == load_user_profile_any(acct)
                new == ensure_user_profile_v2(acct, now)
            IN  acct.size # "none" =>
                  /\ load_user_profile_any([acct EXCEPT !.size = "V2"])
                       = [old EXCEPT !.size = "V2"]
                  /\ new.size = "V2"
                  /\ new.level >= 1
                  /\ new.level = IF old.level = 0 THEN 1 ELSE old.level
                  /\ old.level = 0 =>
                       new.xp = 0 /\ new.last_xp_update_ts = now
                  /\ old.level >= 1 =>
                       /\ new.xp = acct.xp
                       /\ new.last_xp_update_ts = acct.last_xp_update_ts
                  /\ acct.size = "V1" => old.level = 0
                  /\ new.hp_scaled
                  /\ new.active_hp = IF acct.size = "V2" /\ acct.hp_scaled
                                     THEN acct.active_hp
                                     ELSE acct.active_hp * HP_SCALE
                  /\ new.owner = acct.owner
                  /\ new.next_position_index = acct.next_position_index
                  /\ new.badge_tier = acct.badge_tier
                  /\ new.badge_bonus_bps = acct.badge_bonus_bps
                  /\ \A d \in ClockDays :
                       ensure_user_profile_v2(new, d * WallDay) = new)
    /\ [][last'.op = "ensure_user_profile_v2" =>
            LET acct == profiles[last'.caller]
                new == profiles'[last'.caller]
            IN  /\ new.size = "V2" /\ new.hp_scaled /\ new.level >= 1
                /\ acct.size = "V2" => new = acct
                /\ acct.size # "V2" =>
                     new.active_hp = acct.active_hp * HP_SCALE]_vars

\* a legacy record with level 0, hp and a badge was upgraded after the
\* clock had advanced, and the upgrade has run on it again at a later time
C29_LegacyUpgradedTwice ==
    LET p == profiles["alice"]
    IN  /\ last.op = "ensure_user_profile_v2"
        /\ p.size = "V2" /\ p.hp_scaled
        /\ p.last_xp_update_ts > 0
        /\ p.last_xp_update_ts < now
        /\ p.active_hp = LegacyHp * HP_SCALE
        /\ p.level = 1 /\ p.xp = 0 /\ p.badge_bonus_bps = 50

\* C31: claim on a round that is still Active.  While now <= end_ts the
\* claim fails (with RoundNotEnded for a user_round that exists) and
\* writes nothing.  After end_ts a claim that succeeds has finalized the
\* round first: finalize_active_round_if_ended leaves status Finalized,
\* active_round_active = FALSE and the bonus pool credited with v_round -
\* v_pay, try_start_round runs on that config, and the payout is
\* floor(v_pay * burned / total_burn) of the finalized round.  The round
\* of every successful claim is Finalized when it pays.
C31_ClaimFinalizesFirst ==
    /\ [](\A id \in UserRoundIds, vault_balance \in {0, melt_vault, U64Max} :
            LET round == melt_rounds[id[2]]
                ur == melt_user_rounds[id]
                r == melt_claim(melt_config, round, NextRound, ur,
                                vault_balance, melt_now)
                f == finalize_active_round_if_ended(melt_config, round, melt_now)
                s == try_start_round(f.cfg, NextRound, FALSE, melt_now)
            IN  /\ r.err = "Ok" => r.round.status = "Finalized"
                /\ r.err # "Ok" =>
                     /\ r.cfg = melt_config /\ r.round = round /\ r.ur = ur
                     /\ r.next_round = NextRound /\ r.payout = 0
                /\ (round.status = "Active" /\ melt_now <= round.end_ts) =>
                     /\ r.err # "Ok"
                     /\ ur.exists => r.err = "RoundNotEnded"
                /\ (round.status = "Active" /\ melt_now > round.end_ts) =>
                     /\ f.err = "Ok"
                     /\ f.round = [round EXCEPT !.status = "Finalized"]
                     /\ f.cfg = [melt_config EXCEPT
                                    !.active_round_active = FALSE,
                                    !.bonus_pool_lamports =
                                        @ + round.v_round - round.v_pay]
                     /\ r.err = "Ok" =>
                          /\ r.finalized
                          /\ r.round = f.round
                          /\ r.cfg = s.cfg /\ r.next_round = s.round
                          /\ r.payout = IF round.total_burn = 0 THEN 0
                                        ELSE (round.v_pay * ur.burned)
                                               \div round.total_burn
                     /\ (ur.exists /\ ~ur.claimed /\ ur.burned > 0
                           /\ vault_balance = U64Max)
                          => r.err = "Ok")
    /\ [][melt_last'.op = "claim" =>
            LET seq == melt_last'.seq
                round == melt_rounds[seq]
            IN  /\ melt_rounds'[seq].status = "Finalized"
                /\ melt_last'.finalized <=> round.status = "Active"
                /\ round.status = "Active" =>
                     /\ melt_now > round.end_ts
                     /\ melt_config.active_round_active
                     /\ ~melt_last'.started =>
                          /\ ~melt_config'.active_round_active
                          /\ melt_config'.bonus_pool_lamports
                               = melt_config.bonus_pool_lamports
                                   + round.v_round - round.v_pay
                     /\ melt_last'.started =>
                          /\ melt_config'.bonus_pool_lamports = 0
                          /\ melt_rounds'[melt_config.round_seq].v_round
                               = melt_config.vault_cap_lamports
                                   + melt_config.bonus_pool_lamports
                                   + round.v_round - round.v_pay]_vars

\* a claim has finalized the round it was made for, paid, and started the
\* next round
C31_ClaimFinalizedAndPaid ==
    /\ melt_last.op = "claim"
    /\ melt_last.finalized
    /\ melt_last.payout > 0
    /\ melt_last.started
    /\ melt_rounds[melt_last.seq].status = "Finalized"

C33_WindowNeverWraps ==
    /\ [](\A seq \in RoundSeqs :
             melt_rounds[seq].status # "Planned"
               => melt_rounds[seq].end_ts > melt_rounds[seq].start_ts)
    /\ [][melt_last'.started =>
            LET window == IF melt_config.pending_window_sec > 0
                          THEN melt_config.pending_window_sec
                          ELSE melt_config.round_window_sec
                next == melt_rounds'[melt_config.round_seq]
            IN  /\ next.start_ts = melt_now
                /\ next.end_ts = melt_now + window]_vars

\* C34: a renewal starts the position afresh.  After every renew_rig
\* and renew_rig_with_buff step the position record decodes to expired =
\* false, deactivated = false, final_acc_mind_per_hp = 0 and reward_debt =
\* earned_per_hp(its new effective weight, acc_mind_per_hp), so that its
\* pending_mind is 0 and a claim_mind at that instant is refused with
\* NothingToClaim, whatever a claim_mind in place of the renewal would
\* have paid for the previous cycle.
C34_RenewalStartsAfresh ==
    [][last'.op \in {"renew_rig", "renew_rig_with_buff"} =>
         LET pid == last'.pid
             p == load_position_any(positions'[pid])
             level == load_user_profile_any(profiles'[pid[1]]).level
             weight == effective_hp_scaled(
                           position_base_hp_scaled(p), level,
                           position_buff_bps(p, position_rig_type(p, cfg'), now'))
             eff == effective_hp_for_claim(p, level, cfg', now')
         IN  /\ ~p.expired
             /\ ~p.deactivated
             /\ p.final_acc_mind_per_hp = <<>>
             /\ p.reward_debt = earned_per_hp(weight, cfg'.acc_mind_per_hp)
             /\ eff = <<weight, cfg'.acc_mind_per_hp>>
             /\ pending_mind(eff[1], eff[2], p.reward_debt) = 0
             /\ claim_mind(cfg', positions'[pid], profiles'[pid[1]], TRUE, now').err
                  = "NothingToClaim"]_vars

\* the only position of the network has been renewed at the end of its
\* first cycle, which it began with the accumulator at 0 and during which
\* nothing was minted: the reward of that cycle is in no pending_mind
C34_FirstCycleForfeited ==
    /\ last.op \in {"renew_rig", "renew_rig_with_buff"}
    /\ last.expired /\ last.nth = 1
    /\ mind_minted = 0
    /\ last.final_acc # <<>>
    /\ PendingOf(last.pid) = 0
    /\ \A pid \in PosIds : positions[pid].size # "none" => pid = last.pid

\* C35: roll_epoch drops no XNT of the stakers.  With the accumulator
\* advanced to the time of the instruction, the amount not streamed yet,
\* staking_undistributed_xnt + staking_reward_rate_xnt_per_sec *
\* max(0, staking_epoch_end_ts - staking_last_update_ts), is after a
\* roll_epoch what it was before plus the lamports roll_epoch newly found
\* in the vault.
C35_RollEpochKeepsRemainder ==
    [][last'.op = "roll_epoch" =>
         LET unstreamed(c) ==
                 BigToInt(c.staking_undistributed_xnt)
                   + c.staking_reward_rate_xnt_per_sec
                       * Max(0, c.staking_epoch_end_ts - c.staking_last_update_ts)
             before == update_staking_global(cfg, now)
             found == Max(0, staking_reward_vault
                               - BigToInt(before.staking_accounted_balance))
         IN  unstreamed(cfg') = unstreamed(before) + found]_vars

\* C36: the rounds form a sequence with at most one of them Active.  In
\* every state at most one round account is Active, and
\* active_round_active holds exactly if a round is Active, which is then
\* the round active_round_seq.  A step starts a round only with no round
\* active when try_start_round runs (none before the step, or the one this
\* step finalized) and with the vial at vault_cap_lamports or more, which
\* it takes from the vial; round_seq grows by exactly 1 in a step that
\* starts a round and stays in every other step; the round started is
\* the account round_seq, which was never started; no other account
\* becomes Active, and a Finalized round stays Finalized.
C36_OneActiveRound ==
    /\ [](LET active == {seq \in RoundSeqs : melt_rounds[seq].status = "Active"}
          IN  /\ Cardinality(active) <= 1
              /\ melt_config.active_round_active
                    <=> (active # {} /\ active = {melt_config.active_round_seq})
              /\ \A seq \in RoundSeqs :
                    /\ melt_rounds[seq].status # "Planned"
                          => seq < melt_config.round_seq /\ melt_rounds[seq].seq = seq
                    /\ seq >= melt_config.round_seq
                          => melt_rounds[seq].status = "Planned")
    /\ [][LET started == melt_last'.started
              funded == IF melt_last'.op \in {"admin_topup_vial", "admin_topup_vault",
                                              "record_funding"}
                        THEN melt_last'.amount ELSE 0
          IN  /\ melt_config'.round_seq
                    = melt_config.round_seq + (IF started THEN 1 ELSE 0)
              /\ started =>
                    /\ ~melt_config.active_round_active \/ melt_last'.finalized
                    /\ melt_config.vial_lamports + funded
                          >= melt_config.vault_cap_lamports
                    /\ melt_config'.vial_lamports
                          = melt_config.vial_lamports + funded
                              - melt_config.vault_cap_lamports
                    /\ melt_rounds[melt_config.round_seq].status = "Planned"
                    /\ melt_rounds'[melt_config.round_seq].status = "Active"
                    /\ melt_config'.active_round_seq = melt_config.round_seq
              /\ \A seq \in RoundSeqs :
                    /\ (melt_rounds'[seq].status = "Active"
                          /\ melt_rounds[seq].status # "Active")
                         => started /\ seq = melt_config.round_seq
                    /\ melt_rounds[seq].status = "Finalized"
                         => melt_rounds'[seq].status = "Finalized"]_vars

\* a claim on a Finalized round has started the next round, with the
\* vial left full by a lowered cap, and every earlier round is Finalized
C36_ClaimStartedNextRound ==
    /\ melt_last.op = "claim" /\ melt_last.started /\ ~melt_last.finalized
    /\ melt_config.round_seq >= 2
    /\ melt_config.active_round_active
    /\ melt_rounds[melt_config.active_round_seq].status = "Active"
    /\ \A seq \in RoundSeqs :
         seq < melt_config.active_round_seq => melt_rounds[seq].status = "Finalized"

RECURSIVE SeqTotal(_)
SeqTotal(q) == IF q = <<>> THEN 0 ELSE Head(q) + SeqTotal(Tail(q))

\* burned summed over the user_rounds of the users S for round seq
RECURSIVE BurnedOver(_, _)
BurnedOver(S, seq) ==
    IF S = {} THEN 0
    ELSE LET u == CHOOSE x \in S : TRUE
         IN  melt_user_rounds[<<u, seq>>].burned + BurnedOver(S \ {u}, seq)

\* the payouts claim has made to the users S for round seq
RECURSIVE PaidOver(_, _)
PaidOver(S, seq) ==
    IF S = {} THEN 0
    ELSE LET u == CHOOSE x \in S : TRUE
         IN  SeqTotal(melt_payouts[<<u, seq>>]) + PaidOver(S \ {u}, seq)

\* C37: burns and payouts of a round.  burn_mind succeeds only on a round
\* that is Active with start_ts <= now <= end_ts and is refused on every
\* other round; total_burn of a round is the sum of burned over its
\* user_rounds, and neither changes once the round is Finalized; each
\* payout of claim is floor(v_pay * burned / total_burn), and the payouts
\* made for a round sum to at most its v_pay.
C37_BurnsAndPayouts ==
    /\ [](\A seq \in RoundSeqs :
            /\ melt_rounds[seq].total_burn = BurnedOver(Owners, seq)
            /\ PaidOver(Owners, seq) <= melt_rounds[seq].v_pay
            /\ ~(/\ melt_rounds[seq].status = "Active"
                 /\ melt_rounds[seq].start_ts <= melt_now
                 /\ melt_now <= melt_rounds[seq].end_ts)
                 => \A u \in Owners, amount \in BurnAmounts :
                      burn_mind(melt_config, melt_rounds[seq],
                                melt_user_rounds[<<u, seq>>], amount, TRUE,
                                melt_now).err
                        \in {"BadRoundStatus", "RoundNotActive"})
    /\ [][/\ melt_last'.op = "burn_mind" =>
               LET seq == melt_last'.seq
                   id == <<melt_last'.user, seq>>
               IN  /\ melt_rounds[seq].status = "Active"
                   /\ melt_rounds[seq].start_ts <= melt_now
                   /\ melt_now <= melt_rounds[seq].end_ts
                   /\ melt_rounds'[seq].total_burn
                        = melt_rounds[seq].total_burn + melt_last'.amount
                   /\ melt_user_rounds'[id].burned
                        = melt_user_rounds[id].burned + melt_last'.amount
          /\ melt_last'.op = "claim" =>
               LET round == melt_rounds'[melt_last'.seq]
                   burned == melt_user_rounds'[<<melt_last'.user, melt_last'.seq>>]
                                 .burned
               IN  /\ round.total_burn > 0
                   /\ melt_last'.payout
                        = (round.v_pay * burned) \div round.total_burn
          /\ \A seq \in RoundSeqs :
               melt_rounds[seq].status = "Finalized" =>
                 /\ melt_rounds'[seq].total_burn = melt_rounds[seq].total_burn
                 /\ \A u \in Owners :
                      melt_user_rounds'[<<u, seq>>].burned
                        = melt_user_rounds[<<u, seq>>].burned]_vars

\* both burners of a Finalized round have been paid, alice for a third of
\* what bob burned, and the floors leave part of v_pay in the vault
C37_BothPaidWithRemainder ==
    \E seq \in RoundSeqs :
        /\ melt_rounds[seq].status = "Finalized"
        /\ melt_user_rounds[<<"alice", seq>>].burned = 1
        /\ melt_user_rounds[<<"bob", seq>>].burned = 3
        /\ melt_payouts[<<"alice", seq>>] # <<>>
        /\ melt_payouts[<<"bob", seq>>] # <<>>
        /\ melt_payouts[<<"alice", seq>>][1] > 0
        /\ PaidOver(Owners, seq) < melt_rounds[seq].v_pay

\* C38: a full vial with no round active does not outlast a funding or
\* settling instruction.  After every successful admin_topup_vial,
\* admin_topup_vault, record_funding, finalize_round and claim a round is
\* active or vial_lamports < vault_cap_lamports.  try_start_round called
\* non-strict with a round active or the vial not full returns Ok and
\* leaves the config and the round account as they are; start_round, which
\* calls it strict, then fails with RoundAlreadyActive, or with VialNotFull
\* if no round is active.
C38_FullVialStartsRound ==
    /\ [](LET full == melt_config.vial_lamports >= melt_config.vault_cap_lamports
              active == melt_config.active_round_active
              lax == try_start_round(melt_config, NextRound, FALSE, melt_now)
              strict == try_start_round(melt_config, NextRound, TRUE, melt_now)
              admin == start_round(melt_config, NextRound, MeltAdmin, melt_now)
          IN  /\ (active \/ ~full) =>
                    /\ lax = [err |-> "Ok", cfg |-> melt_config,
                              round |-> NextRound, started |-> FALSE]
                    /\ strict.cfg = melt_config /\ strict.round = NextRound
                    /\ ~strict.started
                    /\ admin = strict
              /\ active => strict.err = "RoundAlreadyActive"
              /\ (~active /\ ~full) => strict.err = "VialNotFull"
              /\ (~active /\ full) => lax = strict)
    /\ [][melt_last'.op \in {"admin_topup_vial", "admin_topup_vault",
                             "record_funding", "finalize_round", "claim"} =>
            \/ melt_config'.active_round_active
            \/ melt_config'.vial_lamports < melt_config'.vault_cap_lamports]_vars

\* finalize_round has started the next round from a vial that was filled
\* while the round it finalized was running; start_round is now refused
C38_FinalizeStartedFromFullVial ==
    /\ melt_last.op = "finalize_round"
    /\ melt_last.started /\ melt_last.finalized
    /\ melt_config.active_round_active
    /\ melt_config.active_round_seq = melt_last.seq + 1
    /\ melt_rounds[melt_last.seq].status = "Finalized"
    /\ start_round(melt_config, NextRound, MeltAdmin, melt_now).err
         = "RoundAlreadyActive"

\* staking_weight of the staking position accounts S, from their own fields
RECURSIVE StakeWeightOver(_)
StakeWeightOver(S) ==
    IF S = {} THEN 0
    ELSE LET sid == CHOOSE x \in S : TRUE
             stake == pocm_stakes[sid]
         IN  staking_weight(stake.amount, stake.duration_days, stake.xp_boost_bps)
               + StakeWeightOver(S \ {sid})

\* C39: total_staked_mind is the weight of the open staking positions.
\* admin_set_staking_weighted_total is not called.  In every state
\* total_staked_mind is the sum of staking_weight(amount, duration_days,
\* xp_boost_bps) over the staking positions that exist; create_stake adds
\* that weight of the position it creates, computed with the xp_boost_bps
\* of the owner's profile at that time, which it stores in the position;
\* amount, duration_days and xp_boost_bps of a position do not change
\* while it exists, whatever becomes of the profile; and withdraw_stake
\* subtracts the weight of those stored fields, the weight that was added.
C39_TotalIsSumOfWeights ==
    /\ [](pocm_cfg.total_staked_mind
            = StakeWeightOver({sid \in PosIds : pocm_stakes[sid].owner # ""}))
    /\ [][/\ \A sid \in PosIds :
              (pocm_stakes[sid].owner # "" /\ pocm_stakes'[sid].owner # "") =>
                 /\ pocm_stakes'[sid].amount = pocm_stakes[sid].amount
                 /\ pocm_stakes'[sid].duration_days = pocm_stakes[sid].duration_days
                 /\ pocm_stakes'[sid].xp_boost_bps = pocm_stakes[sid].xp_boost_bps
          /\ pocm_last'.op = "create_stake" =>
               LET stake == pocm_stakes'[pocm_last'.sid]
               IN  /\ pocm_stakes[pocm_last'.sid].owner = ""
                   /\ stake.xp_boost_bps
                        = pocm_profiles[pocm_last'.caller].xp_boost_bps
                   /\ pocm_last'.weight
                        = staking_weight(stake.amount, stake.duration_days,
                                         stake.xp_boost_bps)
          /\ pocm_last'.op = "withdraw_stake" =>
               LET stake == pocm_stakes[pocm_last'.sid]
               IN  /\ pocm_stakes'[pocm_last'.sid].owner = ""
                   /\ pocm_last'.weight
                        = staking_weight(stake.amount, stake.duration_days,
                                         stake.xp_boost_bps)]_vars

\* the only staking position has been withdrawn with the weight of boost 0
\* it was created with, after its owner's profile reached the silver boost
C39_WithdrawnAfterBoost ==
    /\ pocm_last.op = "withdraw_stake"
    /\ pocm_profiles[pocm_last.caller].xp_boost_bps = XpBoostSilverBps
    /\ pocm_profiles[pocm_last.caller].next_stake_index = 1
    /\ \E d \in Durations :
         /\ pocm_last.weight = staking_weight(StakeAmount, d, 0)
         /\ pocm_last.weight # staking_weight(StakeAmount, d, XpBoostSilverBps)
    /\ pocm_cfg.total_staked_mind = 0

\* C40: an ended round is settled.  Whenever the round active_round_seq
\* is Active and now > end_ts, finalize_round succeeds and leaves it
\* Finalized, and so does claim called by a user who burned in it; every
\* Active round whose end the clock can pass is eventually Finalized; and
\* for a Finalized round claim succeeds for every user with burned > 0
\* who has not claimed, and is refused once that user has claimed.
C40_EndedRoundsSettle ==
    /\ [](\A seq \in RoundSeqs :
            LET round == melt_rounds[seq]
                ur == melt_user_rounds[<<"alice", seq>>]
                settled == finalize_round(melt_config, round, NextRound, melt_now)
                paid == melt_claim(melt_config, round, NextRound, ur, melt_vault,
                                   melt_now)
            IN  /\ (/\ round.status = "Active"
                     /\ melt_config.active_round_active
                     /\ melt_config.active_round_seq = round.seq
                     /\ melt_now > round.end_ts
                     /\ melt_config.round_seq \in RoundSeqs) =>
                       /\ settled.err = "Ok"
                       /\ settled.round.status = "Finalized"
                       /\ ur.burned > 0 =>
                            paid.err = "Ok" /\ paid.round.status = "Finalized"
                /\ (round.status = "Finalized" /\ ur.burned > 0) =>
                       IF ur.claimed THEN paid.err = "AlreadyClaimed"
                       ELSE paid.err = "Ok" /\ paid.ur.claimed)
    /\ \A seq \in RoundSeqs :
         (melt_rounds[seq].status = "Active" /\ melt_rounds[seq].end_ts < MeltMaxNow)
           ~> melt_rounds[seq].status = "Finalized"

====
